---------------------------- MODULE Spec2Model ----------------------------
(***************************************************************************)
(* A model of the evaluation engine of customer_intelligence:              *)
(* evaluation/metrics.py, evaluation/fuzzy_matching.py,                    *)
(* evaluation/report.py, evaluation/signal_evaluators.py,                  *)
(* evaluation/llm_judge.py and evaluation/runner.py.                       *)
(*                                                                         *)
(* Conventions.                                                            *)
(*  - A Python float is an exact rational <<n, d>> in lowest terms, d > 0. *)
(*    NaN is <<0, 0>>.  None is the empty tuple <<>>.                      *)
(*  - A Python str is a sequence of one-character strings.                 *)
(*  - Python lists are sequences; a Python index k is k + 1 here.          *)
(***************************************************************************)
EXTENDS Integers, Sequences, FiniteSets, TLC

\* ------------------------------------------------------------------ bounds
\* Longest extracted / ground-truth list handed to the fuzzy matcher.
MaxLen == 2
\* Largest set handed to precision / recall is a subset of 1..MaxElem.
MaxElem == 3
\* Most SignalMetrics in one hand-built LayerReport.
MaxMetrics == 1
\* Most EvaluationReports in one hand-built CorpusReport.
MaxReports == 3
\* Most cases in one corpus handed to evaluate_corpus.
MaxCases == 2
\* The judge client fails at its n-th request for some n up to this, or never.
MaxFailAt == 5

VARIABLES
    pc,         \* position of the call under study
    args,       \* the arguments of the call
    ret,        \* what the call returned (None before it returns)
    appended,   \* evaluate_corpus: its list reports, appended to so far
    work,       \* evaluate: the layer reports of the case in hand
    cache,      \* LLMJudge._cache of the evaluate() call in hand
    calls       \* the requests the judge client has received

vars == <<pc, args, ret, appended, work, cache, calls>>

\* -------------------------------------------------------------- None, NaN
None == <<>>
NaN == <<0, 0>>

\* no corpus run is in hand: the state of the runner's variables in the
\* specifications that call one function
RunnerIdle == appended = <<>> /\ work = None /\ cache = <<>> /\ calls = <<>>

\* ------------------------------------------------------- exact arithmetic
Abs(x) == IF x < 0 THEN -x ELSE x

RECURSIVE GCD(_, _)
GCD(a, b) == IF b = 0 THEN a ELSE GCD(b, a % b)

\* n / d for d > 0, in lowest terms
Frac(n, d) == LET g == GCD(Abs(n), d) IN <<n \div g, d \div g>>

Zero == <<0, 1>>
One == <<1, 1>>
Half == <<1, 2>>

FAdd(x, y) == Frac(x[1] * y[2] + y[1] * x[2], x[2] * y[2])
FSub(x, y) == Frac(x[1] * y[2] - y[1] * x[2], x[2] * y[2])
FMul(x, y) == Frac(x[1] * y[1], x[2] * y[2])
\* x / y for y > 0
FDiv(x, y) == Frac(x[1] * y[2], x[2] * y[1])
FAbs(x) == <<Abs(x[1]), x[2]>>
FLt(x, y) == x[1] * y[2] < y[1] * x[2]
FLe(x, y) == x[1] * y[2] <= y[1] * x[2]
FInt(n) == <<n, 1>>

IsFrac(x) == Len(x) = 2 /\ x[2] > 0
InUnit(x) == IsFrac(x) /\ FLe(Zero, x) /\ FLe(x, One)

RECURSIVE FSum(_)
FSum(s) == IF s = <<>> THEN Zero ELSE FAdd(Head(s), FSum(Tail(s)))

\* sum(s) / len(s) for a non-empty list of floats
FMean(s) == FDiv(FSum(s), FInt(Len(s)))

\* ----------------------------------------------------------- str helpers
Range(s) == {s[k] : k \in 1..Len(s)}

\* the lists over S of length at most n
SeqsUpTo(S, n) == UNION {[1..k -> S] : k \in 0..n}

\* str.lower() on one character
LowerChar(c) == IF c = "A" THEN "a" ELSE IF c = "B" THEN "b" ELSE c

\* str.lower()
Lower(s) == [k \in 1..Len(s) |-> LowerChar(s[k])]

\* str.split(): the maximal runs of non-whitespace characters, in order
RECURSIVE SplitFrom(_, _)
SplitFrom(s, cur) ==
    IF s = <<>> THEN (IF cur = <<>> THEN <<>> ELSE <<cur>>)
    ELSE IF Head(s) = " "
         THEN (IF cur = <<>> THEN SplitFrom(Tail(s), <<>>)
               ELSE <<cur>> \o SplitFrom(Tail(s), <<>>))
         ELSE SplitFrom(Tail(s), Append(cur, Head(s)))

Split(s) == SplitFrom(s, <<>>)

\* ---------------------------------------------------------- metrics.py
\* a precision that is 0 for an empty prediction, whatever the actual set
precision_ZeroWhenEmpty(predicted, actual) ==
    IF predicted = {}
    THEN Zero
    ELSE Frac(Cardinality(predicted \cap actual), Cardinality(predicted))

precision(predicted, actual) ==
    IF predicted = {}
    THEN (IF actual = {} THEN One ELSE Zero)
    ELSE Frac(Cardinality(predicted \cap actual), Cardinality(predicted))

\* recall written as the mirror image of precision
recall_MirrorsPrecision(predicted, actual) ==
    IF actual = {}
    THEN (IF predicted = {} THEN One ELSE Zero)
    ELSE Frac(Cardinality(predicted \cap actual), Cardinality(actual))

\* the arithmetic mean in place of the harmonic one
f1_ArithmeticMean(p, r) ==
    IF FLe(FAdd(p, r), Zero)
    THEN Zero
    ELSE FDiv(FAdd(p, r), FInt(2))

recall(predicted, actual) ==
    IF actual = {}
    THEN One
    ELSE Frac(Cardinality(predicted \cap actual), Cardinality(actual))

f1(p, r) ==
    IF FAdd(p, r) = Zero
    THEN Zero
    ELSE FDiv(FMul(FInt(2), FMul(p, r)), FAdd(p, r))

precision_recall_f1(predicted, actual) ==
    LET p == precision(predicted, actual)
        r == recall(predicted, actual)
    IN  <<p, r, f1(p, r)>>

\* scale.index(value); 0 when value is not in scale
IndexIn(scale, value) ==
    IF \E k \in 1..Len(scale) : scale[k] = value
    THEN CHOOSE k \in 1..Len(scale) :
             scale[k] = value /\ \A j \in 1..(k - 1) : scale[j] # value
    ELSE 0

\* the single-element test made before the membership test
ordinal_agreement_SingleIsOne(predicted, actual, scale) ==
    IF Len(scale) - 1 = 0 THEN One
    ELSE IF IndexIn(scale, predicted) = 0 \/ IndexIn(scale, actual) = 0 THEN Zero
    ELSE FSub(One, Frac(Abs(IndexIn(scale, predicted) - IndexIn(scale, actual)),
                        Len(scale) - 1))

ordinal_agreement(predicted, actual, scale) ==
    IF IndexIn(scale, predicted) = 0 \/ IndexIn(scale, actual) = 0 THEN Zero
    ELSE IF Len(scale) - 1 = 0 THEN One
    ELSE FSub(One, Frac(Abs(IndexIn(scale, predicted) - IndexIn(scale, actual)),
                        Len(scale) - 1))

\* ----------------------------------------------------- fuzzy_matching.py
\* the overlap taken over the tokens of a alone
token_overlap_similarity_OverFirst(a, b) ==
    LET tokens_a == Range(Split(Lower(a)))
        tokens_b == Range(Split(Lower(b)))
    IN  IF tokens_a = {} /\ tokens_b = {} THEN One
        ELSE IF tokens_a = {} \/ tokens_b = {} THEN Zero
        ELSE Frac(Cardinality(tokens_a \cap tokens_b), Cardinality(tokens_a))

token_overlap_similarity(a, b) ==
    LET tokens_a == Range(Split(Lower(a)))
        tokens_b == Range(Split(Lower(b)))
    IN  IF tokens_a = {} /\ tokens_b = {} THEN One
        ELSE IF tokens_a = {} \/ tokens_b = {} THEN Zero
        ELSE Frac(Cardinality(tokens_a \cap tokens_b),
                  Cardinality(tokens_a \cup tokens_b))

\* The similarity_fn argument: the library's own function and two callables
\* a caller may pass instead.
SimilarityFns == {"token_overlap_similarity", "exact_match", "always_one"}

ApplySimilarity(similarity_fn, a, b) ==
    CASE similarity_fn = "token_overlap_similarity" -> token_overlap_similarity(a, b)
      [] similarity_fn = "exact_match" -> (IF a = b THEN One ELSE Zero)
      [] similarity_fn = "always_one" -> One

\* lines 60-65: the candidate pairs [score, i, j] with score >= threshold,
\* in row-major order
RECURSIVE BuildPairs(_, _, _, _, _, _)
BuildPairs(extracted, ground_truth, similarity_fn, threshold, i, j) ==
    IF i > Len(extracted) THEN <<>>
    ELSE IF j > Len(ground_truth)
         THEN BuildPairs(extracted, ground_truth, similarity_fn, threshold, i + 1, 1)
         ELSE LET score == ApplySimilarity(similarity_fn, extracted[i], ground_truth[j])
                  rest == BuildPairs(extracted, ground_truth, similarity_fn,
                                     threshold, i, j + 1)
              IN  IF FLe(threshold, score)
                  THEN <<[score |-> score, i |-> i, j |-> j]>> \o rest
                  ELSE rest

\* line 68: list.sort(key=score, reverse=True) is stable: equal scores keep
\* their order
\* a sort that puts a pair before the pairs of equal score
RECURSIVE InsertDesc_TiesReversed(_, _)
InsertDesc_TiesReversed(sorted, x) ==
    IF sorted = <<>> THEN <<x>>
    ELSE IF FLe(Head(sorted).score, x.score)
         THEN <<x>> \o sorted
         ELSE <<Head(sorted)>> \o InsertDesc_TiesReversed(Tail(sorted), x)

RECURSIVE InsertDesc(_, _)
InsertDesc(sorted, x) ==
    IF sorted = <<>> THEN <<x>>
    ELSE IF FLt(Head(sorted).score, x.score)
         THEN <<x>> \o sorted
         ELSE <<Head(sorted)>> \o InsertDesc(Tail(sorted), x)

RECURSIVE SortDesc(_)
SortDesc(pairs) ==
    IF pairs = <<>> THEN <<>>
    ELSE InsertDesc(SortDesc(SubSeq(pairs, 1, Len(pairs) - 1)), pairs[Len(pairs)])

\* the accept test without the extracted side
PairIsFree_IgnoresExtracted(pair, used_extracted, used_gt) ==
    pair.j \notin used_gt

\* the accept test without the ground-truth side
PairIsFree_IgnoresGt(pair, used_extracted, used_gt) ==
    pair.i \notin used_extracted

\* line 74: the test that accepts a candidate pair
PairIsFree(pair, used_extracted, used_gt) ==
    pair.i \notin used_extracted /\ pair.j \notin used_gt

\* lines 69-77: the greedy loop; the result is the accepted pairs in order
RECURSIVE GreedyMatch(_, _, _)
GreedyMatch(pairs, used_extracted, used_gt) ==
    IF pairs = <<>> THEN <<>>
    ELSE LET pair == Head(pairs)
         IN  IF PairIsFree(pair, used_extracted, used_gt)
             THEN <<pair>> \o GreedyMatch(Tail(pairs),
                                         used_extracted \cup {pair.i},
                                         used_gt \cup {pair.j})
             ELSE GreedyMatch(Tail(pairs), used_extracted, used_gt)

\* recall divided by the wrong length
FuzzyScores_RecallByExtracted(n_matched, n_extracted, n_ground_truth) ==
    LET p == IF n_extracted > 0 THEN Frac(n_matched, n_extracted) ELSE Zero
        r == IF n_extracted > 0 THEN Frac(n_matched, n_extracted) ELSE Zero
        f == IF FLt(Zero, FAdd(p, r))
             THEN FDiv(FMul(FInt(2), FMul(p, r)), FAdd(p, r))
             ELSE Zero
    IN  [p |-> p, r |-> r, f |-> f]

\* lines 79-82: precision, recall and f1 from the number of matched pairs
FuzzyScores(n_matched, n_extracted, n_ground_truth) ==
    LET p == IF n_extracted > 0 THEN Frac(n_matched, n_extracted) ELSE Zero
        r == IF n_ground_truth > 0 THEN Frac(n_matched, n_ground_truth) ELSE Zero
        f == IF FLt(Zero, FAdd(p, r))
             THEN FDiv(FMul(FInt(2), FMul(p, r)), FAdd(p, r))
             ELSE Zero
    IN  [p |-> p, r |-> r, f |-> f]

\* The returned tuple (p, r, f, matched) as a record; accepted holds the
\* (i, j) of each matched triple, which the code drops on return.
compute_fuzzy_precision_recall(extracted, ground_truth, similarity_fn, threshold) ==
    IF extracted = <<>> /\ ground_truth = <<>>
    THEN [p |-> One, r |-> One, f |-> One, matched |-> <<>>, accepted |-> <<>>]
    ELSE IF extracted = <<>>
    THEN [p |-> Zero, r |-> Zero, f |-> Zero, matched |-> <<>>, accepted |-> <<>>]
    ELSE IF ground_truth = <<>>
    THEN [p |-> Zero, r |-> One, f |-> Zero, matched |-> <<>>, accepted |-> <<>>]
    ELSE LET pairs == SortDesc(BuildPairs(extracted, ground_truth,
                                          similarity_fn, threshold, 1, 1))
             acc == GreedyMatch(pairs, {}, {})
             s == FuzzyScores(Len(acc), Len(extracted), Len(ground_truth))
         IN  [p |-> s.p, r |-> s.r, f |-> s.f,
              matched |-> [k \in 1..Len(acc) |->
                              <<extracted[acc[k].i], ground_truth[acc[k].j],
                                acc[k].score>>],
              accepted |-> [k \in 1..Len(acc) |-> <<acc[k].i, acc[k].j>>]]

\* ------------------------------------------------------------- report.py
\* SignalMetrics(signal_name=..., precision=..., recall=..., f1=...): the
\* other fields take the defaults of the class
SignalMetrics(signal_name, p, r, f) ==
    [signal_name |-> signal_name,
     precision |-> p,
     recall |-> r,
     f1 |-> f,
     count_extracted |-> 0,
     count_ground_truth |-> 0,
     accuracy |-> None,
     mae |-> None,
     ordinal_agreement |-> None,
     baseline_agreement |-> None,
     judge_scores |-> <<>>,
     mean_judge_score |-> None,
     structural_issues |-> <<>>,
     score_distribution |-> None,
     matched_pairs |-> <<>>]

LayerReport(layer_name, signal_metrics) ==
    [layer_name |-> layer_name, signal_metrics |-> signal_metrics]

EvaluationReport(transcript_id, surface, behavioral, psychographic, multimodal) ==
    [transcript_id |-> transcript_id,
     surface |-> surface,
     behavioral |-> behavioral,
     psychographic |-> psychographic,
     multimodal |-> multimodal]

\* EvaluationReport.all_signal_metrics
all_signal_metrics(report) ==
    LET metrics == report.surface.signal_metrics
                   \o report.behavioral.signal_metrics
                   \o report.psychographic.signal_metrics
    IN  IF report.multimodal # None
        THEN metrics \o report.multimodal.signal_metrics
        ELSE metrics

\* [m.<field> for m in metrics if m.<field> is not None]
RECURSIVE PresentValues(_, _)
PresentValues(metrics, field) ==
    IF metrics = <<>> THEN <<>>
    ELSE IF Head(metrics)[field] # None
         THEN <<Head(metrics)[field]>> \o PresentValues(Tail(metrics), field)
         ELSE PresentValues(Tail(metrics), field)

\* sum(v) / len(v) if v else float("nan")
MeanOrNaN(v) == IF v # <<>> THEN FMean(v) ELSE NaN

\* overall_f1 with a missing F1 counted as zero
overall_f1_ZeroFilled(report) ==
    LET ms == all_signal_metrics(report)
    IN  IF ms = <<>> THEN NaN
        ELSE FDiv(FSum(PresentValues(ms, "f1")), FInt(Len(ms)))

\* EvaluationReport.overall_f1
overall_f1(report) == MeanOrNaN(PresentValues(all_signal_metrics(report), "f1"))

\* for report in self.reports: for m in report.all_signal_metrics
RECURSIVE CorpusMetrics(_)
CorpusMetrics(reports) ==
    IF reports = <<>> THEN <<>>
    ELSE all_signal_metrics(Head(reports)) \o CorpusMetrics(Tail(reports))

\* the metrics of one name, in order
RECURSIVE MetricsNamed(_, _)
MetricsNamed(metrics, name) ==
    IF metrics = <<>> THEN <<>>
    ELSE IF Head(metrics).signal_name = name
         THEN <<Head(metrics)>> \o MetricsNamed(Tail(metrics), name)
         ELSE MetricsNamed(Tail(metrics), name)

\* lines 137-144: accum is a defaultdict, so a name becomes a key the first
\* time one of its three values is appended
AccumKeys(metrics) ==
    {metrics[k].signal_name : k \in
        {k \in 1..Len(metrics) : \/ metrics[k].precision # None
                                 \/ metrics[k].recall # None
                                 \/ metrics[k].f1 # None}}

\* the means with a missing value counted as zero
mean_metrics_by_signal_ZeroFilled(reports) ==
    LET metrics == CorpusMetrics(reports)
    IN  [name \in AccumKeys(metrics) |->
            [k \in {"precision", "recall", "f1"} |->
                FDiv(FSum(PresentValues(MetricsNamed(metrics, name), k)),
                     FInt(Len(MetricsNamed(metrics, name))))]]

\* CorpusReport.mean_metrics_by_signal: the returned dict as a function
mean_metrics_by_signal(reports) ==
    LET metrics == CorpusMetrics(reports)
    IN  [name \in AccumKeys(metrics) |->
            [k \in {"precision", "recall", "f1"} |->
                MeanOrNaN(PresentValues(MetricsNamed(metrics, name), k))]]

\* ------------------------------------------------- structural_checks.py
\* An issue string is a record of what the f-string is built from.
\* a bounds check that also flags the index max_index
RECURSIVE validate_utterance_indices_InclusiveMax(_, _, _)
validate_utterance_indices_InclusiveMax(indices, max_index, label) ==
    IF indices = <<>> THEN <<>>
    ELSE LET idx == Head(indices)
             rest == validate_utterance_indices_InclusiveMax(Tail(indices), max_index, label)
         IN  IF idx < 0
             THEN <<[check |-> "negative index", label |-> label, idx |-> idx]>> \o rest
             ELSE IF idx >= max_index
             THEN <<[check |-> "exceeds max", label |-> label, idx |-> idx]>> \o rest
             ELSE rest

RECURSIVE validate_utterance_indices(_, _, _)
validate_utterance_indices(indices, max_index, label) ==
    IF indices = <<>> THEN <<>>
    ELSE LET idx == Head(indices)
             rest == validate_utterance_indices(Tail(indices), max_index, label)
         IN  IF idx < 0
             THEN <<[check |-> "negative index", label |-> label, idx |-> idx]>> \o rest
             ELSE IF idx > max_index
             THEN <<[check |-> "exceeds max", label |-> label, idx |-> idx]>> \o rest
             ELSE rest

\* needle in hay, for two str
Contains(hay, needle) ==
    \E k \in 0..(Len(hay) - Len(needle)) : SubSeq(hay, k + 1, k + Len(needle)) = needle

\* sorted(list of int)
RECURSIVE InsertInt(_, _)
InsertInt(sorted, x) ==
    IF sorted = <<>> THEN <<x>>
    ELSE IF x < Head(sorted) THEN <<x>> \o sorted
    ELSE <<Head(sorted)>> \o InsertInt(Tail(sorted), x)

RECURSIVE SortInts(_)
SortInts(xs) == IF xs = <<>> THEN <<>> ELSE InsertInt(SortInts(Tail(xs)), Head(xs))

\* lines 43-47: the turn_index of every utterance whose text mentions the topic
RECURSIVE MentionIndices(_, _)
MentionIndices(topic_lower, utterances) ==
    IF utterances = <<>> THEN <<>>
    ELSE IF Contains(Lower(Head(utterances).text), topic_lower)
         THEN <<Head(utterances).turn_index>> \o MentionIndices(topic_lower, Tail(utterances))
         ELSE MentionIndices(topic_lower, Tail(utterances))

\* the thirds with their upper ends included
ExpectedPosition_Inclusive(median_idx, total_turns) ==
    IF 3 * median_idx <= total_turns THEN "early"
    ELSE IF 3 * median_idx <= 2 * total_turns THEN "mid"
    ELSE "late"

\* lines 53-61: median_idx < total_turns / 3 and < 2 * total_turns / 3,
\* without the division
ExpectedPosition(median_idx, total_turns) ==
    IF 3 * median_idx < total_turns THEN "early"
    ELSE IF 3 * median_idx < 2 * total_turns THEN "mid"
    ELSE "late"

RECURSIVE TimelineIssues(_, _)
TimelineIssues(topics, utterances) ==
    IF topics = <<>> THEN <<>>
    ELSE LET topic == Head(topics)
             mention_indices == MentionIndices(Lower(topic.name), utterances)
             rest == TimelineIssues(Tail(topics), utterances)
         IN  IF mention_indices = <<>> THEN rest
             ELSE LET median_idx == SortInts(mention_indices)[(Len(mention_indices) \div 2) + 1]
                      expected == ExpectedPosition(median_idx, Len(utterances))
                  IN  IF topic.timeline_position # expected
                      THEN <<[check |-> "timeline", label |-> <<"topic", topic.name>>,
                              labeled |-> topic.timeline_position,
                              expected |-> expected, idx |-> median_idx]>> \o rest
                      ELSE rest

check_timeline_consistency(topics, utterances) ==
    IF utterances = <<>> THEN <<>> ELSE TimelineIssues(topics, utterances)

\* A score of the input sets has two decimals; this is it times 100.
Hundredths(score) == (score[1] * 100) \div score[2]

RECURSIVE SumInts(_)
SumInts(xs) == IF xs = <<>> THEN 0 ELSE Head(xs) + SumInts(Tail(xs))

\* round(x, 4) of a non-negative x = n / d, as an integer number of 1/10000:
\* to the nearest, a tie to the even one
Round4(n, d) ==
    LET q == (n * 10000) \div d
        twice == 2 * ((n * 10000) % d)
    IN  IF twice < d THEN q
        ELSE IF twice > d THEN q + 1
        ELSE IF q % 2 = 0 THEN q ELSE q + 1

\* metrics.py lines 72-81: which of the five buckets a score falls in
BucketOf(score) ==
    IF FLt(score, Frac(2, 10)) THEN "0.0-0.2"
    ELSE IF FLt(score, Frac(4, 10)) THEN "0.2-0.4"
    ELSE IF FLt(score, Frac(6, 10)) THEN "0.4-0.6"
    ELSE IF FLt(score, Frac(8, 10)) THEN "0.6-0.8"
    ELSE "0.8-1.0"

BucketNames == {"0.0-0.2", "0.2-0.4", "0.4-0.6", "0.6-0.8", "0.8-1.0"}

\* V = n * sum(h * h) - sum(h)^2 for the scores h in hundredths: the
\* population variance of the scores is V / (n * n * 10000)
VarianceNumerator(scores) ==
    LET n == Len(scores)
        h == [k \in 1..n |-> Hundredths(scores[k])]
    IN  n * SumInts([k \in 1..n |-> h[k] * h[k]]) - SumInts(h) * SumInts(h)

\* metrics.py score_distribution_stats.  The dict's "std" is
\* round(sqrt(variance), 4); the record holds the variance it is the root of.
score_distribution_stats(scores) ==
    IF scores = <<>>
    THEN [mean |-> NaN, variance |-> NaN, buckets |-> <<>>, n |-> 0]
    ELSE LET n == Len(scores)
             h == [k \in 1..n |-> Hundredths(scores[k])]
         IN  [mean |-> Frac(Round4(SumInts(h), 100 * n), 10000),
              variance |-> Frac(VarianceNumerator(scores), n * n * 10000),
              buckets |-> [b \in BucketNames |->
                              Cardinality({k \in 1..n : BucketOf(scores[k]) = b})],
              n |-> n]

\* line 85: stats["std"] < 0.05 with std = round(sqrt(variance), 4).  The
\* rounded root is below 0.05 exactly when the root is below 0.04995, that
\* is when V / (n * n) < 24.950025 = 24 + 38001 / 40000
StdBelowThreshold(scores) ==
    LET n == Len(scores)
        V == VarianceNumerator(scores)
        over == V - 24 * n * n
    IN  \/ over < 0
        \/ (over < n * n /\ 40000 * over < 38001 * n * n)

\* a check that needs more than 3 scores, and more than 5 for the bucket
check_score_distribution_MoreThan(scores, label) ==
    LET stats == score_distribution_stats(scores)
        low == IF stats.n > 3 /\ StdBelowThreshold(scores)
               THEN <<[check |-> "low variance", label |-> label]>>
               ELSE <<>>
        non_empty_buckets == IF stats.n = 0 THEN {}
                             ELSE {b \in BucketNames : stats.buckets[b] > 0}
        single == IF stats.n > 3 /\ Cardinality(non_empty_buckets) = 1 /\ stats.n > 5
                  THEN <<[check |-> "single bucket", label |-> label]>>
                  ELSE <<>>
    IN  [mean |-> stats.mean, variance |-> stats.variance, buckets |-> stats.buckets,
         n |-> stats.n, issues |-> low \o single]

check_score_distribution(scores, label) ==
    LET stats == score_distribution_stats(scores)
        low == IF stats.n >= 3 /\ StdBelowThreshold(scores)
               THEN <<[check |-> "low variance", label |-> label]>>
               ELSE <<>>
        non_empty_buckets == IF stats.n = 0 THEN {}
                             ELSE {b \in BucketNames : stats.buckets[b] > 0}
        single == IF stats.n >= 3 /\ Cardinality(non_empty_buckets) = 1 /\ stats.n >= 5
                  THEN <<[check |-> "single bucket", label |-> label]>>
                  ELSE <<>>
    IN  [mean |-> stats.mean, variance |-> stats.variance, buckets |-> stats.buckets,
         n |-> stats.n, issues |-> low \o single]

\* ------------------------------------------------- signal_evaluators.py
ENTITY_THRESHOLD == Frac(8, 10)
TOPIC_THRESHOLD == Frac(5, 10)
ASPECT_THRESHOLD == Frac(6, 10)
KEYPHRASE_THRESHOLD == Frac(4, 10)
VOCABULARY_THRESHOLD == Frac(8, 10)
METAPHOR_THRESHOLD == Frac(5, 10)

\* [x.<field> for x in items]
Column(items, field) == [k \in 1..Len(items) |-> items[k][field]]

\* next(x for x in items if x.<field> == value): the first such item
FirstWith(items, field, value) ==
    items[CHOOSE k \in 1..Len(items) :
              /\ items[k][field] = value
              /\ \A j \in 1..(k - 1) : items[j][field] # value]

\* the items the loop over matched looks up for the k-th matched triple
ExtOf(matched, k, items, key) == FirstWith(items, key, matched[k][1])
GtOf(matched, k, items, key) == FirstWith(items, key, matched[k][2])

\* an accuracy that is 0 where nothing was matched
MatchAccuracy_ZeroWhenUnmatched(matched, ext_items, gt_items, key, field) ==
    IF matched = <<>> THEN Zero
    ELSE Frac(Cardinality({k \in 1..Len(matched) :
                              FirstWith(ext_items, key, matched[k][1])[field]
                                  = FirstWith(gt_items, key, matched[k][2])[field]}),
              Len(matched))

\* <name>_matches / len(matched) if matched else None
MatchAccuracy(matched, ext_items, gt_items, key, field) ==
    IF matched = <<>> THEN None
    ELSE Frac(Cardinality({k \in 1..Len(matched) :
                              ExtOf(matched, k, ext_items, key)[field]
                                  = GtOf(matched, k, gt_items, key)[field]}),
              Len(matched))

\* sum(errors) / len(errors) if errors else None, errors the absolute
\* differences of <field> over the matched pairs
MatchMAE(matched, ext_items, gt_items, key, field) ==
    IF matched = <<>> THEN None
    ELSE FMean([k \in 1..Len(matched) |->
                   FAbs(FSub(ExtOf(matched, k, ext_items, key)[field],
                             GtOf(matched, k, gt_items, key)[field]))])

\* max((u.turn_index for u in transcript.utterances), default=0)
RECURSIVE MaxTurnIndex(_)
MaxTurnIndex(utterances) ==
    IF utterances = <<>> THEN 0
    ELSE IF Len(utterances) = 1 THEN Head(utterances).turn_index
    ELSE LET rest == MaxTurnIndex(Tail(utterances))
         IN  IF Head(utterances).turn_index > rest
             THEN Head(utterances).turn_index ELSE rest

\* lines 78-81
RECURSIVE AspectIndexIssues(_, _)
AspectIndexIssues(aspects, max_idx) ==
    IF aspects = <<>> THEN <<>>
    ELSE validate_utterance_indices(Head(aspects).source_utterance_indices, max_idx,
                                    <<"aspect", Head(aspects).aspect>>)
         \o AspectIndexIssues(Tail(aspects), max_idx)

eval_aspects(extracted, ground_truth, max_idx) ==
    LET ext_names == Column(extracted.aspects, "aspect")
        gt_names == Column(ground_truth.aspects, "aspect")
        fz == compute_fuzzy_precision_recall(ext_names, gt_names,
                                             "token_overlap_similarity", ASPECT_THRESHOLD)
        dist == check_score_distribution(Column(extracted.aspects, "intensity"),
                                         "aspect_intensity")
    IN  [SignalMetrics("aspects", fz.p, fz.r, fz.f) EXCEPT
            !.count_extracted = Len(ext_names),
            !.count_ground_truth = Len(gt_names),
            !.accuracy = MatchAccuracy(fz.matched, extracted.aspects,
                                       ground_truth.aspects, "aspect", "sentiment"),
            !.mae = MatchMAE(fz.matched, extracted.aspects,
                             ground_truth.aspects, "aspect", "intensity"),
            !.structural_issues = AspectIndexIssues(extracted.aspects, max_idx)
                                  \o dist.issues,
            !.score_distribution = dist,
            !.matched_pairs = fz.matched]

eval_topics(extracted, ground_truth, transcript) ==
    LET ext_names == Column(extracted.topics, "name")
        gt_names == Column(ground_truth.topics, "name")
        fz == compute_fuzzy_precision_recall(ext_names, gt_names,
                                             "token_overlap_similarity", TOPIC_THRESHOLD)
        dist == check_score_distribution(Column(extracted.topics, "relevance"),
                                         "topic_relevance")
    IN  [SignalMetrics("topics", fz.p, fz.r, fz.f) EXCEPT
            !.count_extracted = Len(ext_names),
            !.count_ground_truth = Len(gt_names),
            !.accuracy = MatchAccuracy(fz.matched, extracted.topics,
                                       ground_truth.topics, "name", "timeline_position"),
            !.mae = MatchMAE(fz.matched, extracted.topics,
                             ground_truth.topics, "name", "relevance"),
            !.structural_issues =
                check_timeline_consistency(extracted.topics, transcript.utterances)
                \o dist.issues,
            !.score_distribution = dist,
            !.matched_pairs = fz.matched]

eval_entities(extracted, ground_truth) ==
    LET ext_names == Column(extracted.entities, "name")
        gt_names == Column(ground_truth.entities, "name")
        fz == compute_fuzzy_precision_recall(ext_names, gt_names,
                                             "token_overlap_similarity", ENTITY_THRESHOLD)
    IN  [SignalMetrics("entities", fz.p, fz.r, fz.f) EXCEPT
            !.count_extracted = Len(ext_names),
            !.count_ground_truth = Len(gt_names),
            !.accuracy = MatchAccuracy(fz.matched, extracted.entities,
                                       ground_truth.entities, "name", "entity_type"),
            !.matched_pairs = fz.matched]

eval_key_phrases(extracted, ground_truth) ==
    LET ext_phrases == Column(extracted.key_phrases, "phrase")
        gt_phrases == Column(ground_truth.key_phrases, "phrase")
        fz == compute_fuzzy_precision_recall(ext_phrases, gt_phrases,
                                             "token_overlap_similarity",
                                             KEYPHRASE_THRESHOLD)
        dist == check_score_distribution(Column(extracted.key_phrases, "relevance"),
                                         "keyphrase_relevance")
    IN  [SignalMetrics("key_phrases", fz.p, fz.r, fz.f) EXCEPT
            !.count_extracted = Len(ext_phrases),
            !.count_ground_truth = Len(gt_phrases),
            !.mae = MatchMAE(fz.matched, extracted.key_phrases,
                             ground_truth.key_phrases, "phrase", "relevance"),
            !.score_distribution = dist,
            !.structural_issues = dist.issues,
            !.matched_pairs = fz.matched]

\* SurfaceEvaluator.evaluate
SurfaceEvaluator_evaluate(extracted, ground_truth, transcript) ==
    LET max_idx == MaxTurnIndex(transcript.utterances)
    IN  LayerReport("Surface",
                    <<eval_aspects(extracted, ground_truth, max_idx),
                      eval_topics(extracted, ground_truth, transcript),
                      eval_entities(extracted, ground_truth),
                      eval_key_phrases(extracted, ground_truth)>>)

\* for gt in ground_truth: for ext in extracted: if key(ext) == key(gt):
\* ...; break -- the (i, j) the loop body runs for, in ground-truth order
FirstIndex(keys, key) ==
    IF \E k \in 1..Len(keys) : keys[k] = key
    THEN CHOOSE k \in 1..Len(keys) :
             keys[k] = key /\ \A j \in 1..(k - 1) : keys[j] # key
    ELSE 0

\* the pairing with the last extracted item of the key instead of the first
RECURSIVE FirstMatchPairs_LastMatch(_, _, _)
FirstMatchPairs_LastMatch(ext_keys, gt_keys, j) ==
    IF j > Len(gt_keys) THEN <<>>
    ELSE LET found == {k \in 1..Len(ext_keys) : ext_keys[k] = gt_keys[j]}
         IN  (IF found = {} THEN <<>>
              ELSE << <<CHOOSE k \in found : \A l \in found : l <= k, j>> >>)
             \o FirstMatchPairs_LastMatch(ext_keys, gt_keys, j + 1)

RECURSIVE FirstMatchPairs(_, _, _)
FirstMatchPairs(ext_keys, gt_keys, j) ==
    IF j > Len(gt_keys) THEN <<>>
    ELSE LET i == FirstIndex(ext_keys, gt_keys[j])
         IN  (IF i = 0 THEN <<>> ELSE << <<i, j>> >>)
             \o FirstMatchPairs(ext_keys, gt_keys, j + 1)

ObjectionTypes(triples) == [k \in 1..Len(triples) |-> triples[k].objection.type]

\* lines 276-290
RECURSIVE ObjectionIndexIssues(_, _)
ObjectionIndexIssues(triples, max_idx) ==
    IF triples = <<>> THEN <<>>
    ELSE LET t == Head(triples)
         IN  validate_utterance_indices(t.objection.source_utterance_indices, max_idx,
                                        <<"objection", t.objection.type>>)
             \o (IF t.resolution # None
                 THEN validate_utterance_indices(t.resolution.source_utterance_indices,
                                                 max_idx,
                                                 <<"resolution", t.resolution.type>>)
                 ELSE <<>>)
             \o ObjectionIndexIssues(Tail(triples), max_idx)

\* lines 254-273 and 297-300: the accuracy stored for objection_triples
ObjectionAccuracy(ext_triples, gt_triples) ==
    LET pairs == FirstMatchPairs(ObjectionTypes(ext_triples),
                                 ObjectionTypes(gt_triples), 1)
        matched_count == Len(pairs)
        resolution_matches ==
            Cardinality({k \in 1..matched_count :
                LET e == ext_triples[pairs[k][1]]
                    g == gt_triples[pairs[k][2]]
                IN  /\ e.resolution # None
                    /\ g.resolution # None
                    /\ e.resolution.type = g.resolution.type})
        outcome_matches ==
            Cardinality({k \in 1..matched_count :
                ext_triples[pairs[k][1]].outcome.resolved
                    = gt_triples[pairs[k][2]].outcome.resolved})
    IN  IF matched_count = 0 THEN None
        ELSE FDiv(FAdd(Frac(resolution_matches, matched_count),
                       Frac(outcome_matches, matched_count)),
                  FInt(2))

eval_objection_triples(extracted, ground_truth, max_idx) ==
    LET ext_types == Range(ObjectionTypes(extracted.objection_triples))
        gt_types == Range(ObjectionTypes(ground_truth.objection_triples))
        prf == precision_recall_f1(ext_types, gt_types)
        dist == check_score_distribution(Column(extracted.objection_triples, "confidence"),
                                         "objection_confidence")
    IN  [SignalMetrics("objection_triples", prf[1], prf[2], prf[3]) EXCEPT
            !.count_extracted = Len(extracted.objection_triples),
            !.count_ground_truth = Len(ground_truth.objection_triples),
            !.accuracy = ObjectionAccuracy(extracted.objection_triples,
                                           ground_truth.objection_triples),
            !.structural_issues =
                ObjectionIndexIssues(extracted.objection_triples, max_idx) \o dist.issues,
            !.score_distribution = dist]

eval_buying_intent(extracted, ground_truth) ==
    LET ext_types == Range(Column(extracted.buying_intent_markers, "type"))
        gt_types == Range(Column(ground_truth.buying_intent_markers, "type"))
        prf == precision_recall_f1(ext_types, gt_types)
        dist == check_score_distribution(
                    Column(extracted.buying_intent_markers, "confidence"),
                    "buying_intent_confidence")
    IN  [SignalMetrics("buying_intent", prf[1], prf[2], prf[3]) EXCEPT
            !.count_extracted = Len(extracted.buying_intent_markers),
            !.count_ground_truth = Len(ground_truth.buying_intent_markers),
            !.score_distribution = dist,
            !.structural_issues = dist.issues]

\* [cm.competitor.lower() for cm in mentions]
LowerCompetitors(mentions) ==
    [k \in 1..Len(mentions) |-> Lower(mentions[k].competitor)]

\* lines 362-369
RECURSIVE CompetitorIndexIssues(_, _)
CompetitorIndexIssues(mentions, max_idx) ==
    IF mentions = <<>> THEN <<>>
    ELSE validate_utterance_indices(Head(mentions).source_utterance_indices, max_idx,
                                    <<"competitor", Head(mentions).competitor>>)
         \o CompetitorIndexIssues(Tail(mentions), max_idx)

eval_competitive_mentions(extracted, ground_truth, max_idx) ==
    LET ext_cms == extracted.competitive_mentions
        gt_cms == ground_truth.competitive_mentions
        prf == precision_recall_f1(Range(LowerCompetitors(ext_cms)),
                                   Range(LowerCompetitors(gt_cms)))
        pairs == FirstMatchPairs(LowerCompetitors(ext_cms), LowerCompetitors(gt_cms), 1)
        matched_count == Len(pairs)
        sentiment_matches ==
            Cardinality({k \in 1..matched_count :
                ext_cms[pairs[k][1]].sentiment = gt_cms[pairs[k][2]].sentiment})
    IN  [SignalMetrics("competitive_mentions", prf[1], prf[2], prf[3]) EXCEPT
            !.count_extracted = Len(ext_cms),
            !.count_ground_truth = Len(gt_cms),
            !.accuracy = IF matched_count = 0 THEN None
                         ELSE Frac(sentiment_matches, matched_count),
            !.structural_issues = CompetitorIndexIssues(ext_cms, max_idx)]

participation_scale == <<"low", "moderate", "high">>
depth_scale == <<"surface", "moderate", "deep">>
energy_scale == <<"low", "medium", "high">>

\* lines 395-418: three agreements for every matched phase
RECURSIVE PhaseAgreements(_, _, _)
PhaseAgreements(pairs, ext_points, gt_points) ==
    IF pairs = <<>> THEN <<>>
    ELSE LET e == ext_points[Head(pairs)[1]]
             g == gt_points[Head(pairs)[2]]
         IN  <<ordinal_agreement(e.participation_level, g.participation_level,
                                 participation_scale),
               ordinal_agreement(e.question_depth, g.question_depth, depth_scale),
               ordinal_agreement(e.energy, g.energy, energy_scale)>>
             \o PhaseAgreements(Tail(pairs), ext_points, gt_points)

eval_engagement_trajectory(extracted, ground_truth) ==
    LET ext_points == extracted.engagement_trajectory
        gt_points == ground_truth.engagement_trajectory
        prf == precision_recall_f1(Range(Column(ext_points, "phase")),
                                   Range(Column(gt_points, "phase")))
        agreements == PhaseAgreements(
                          FirstMatchPairs(Column(ext_points, "phase"),
                                          Column(gt_points, "phase"), 1),
                          ext_points, gt_points)
    IN  [SignalMetrics("engagement_trajectory", prf[1], prf[2], prf[3]) EXCEPT
            !.count_extracted = Len(ext_points),
            !.count_ground_truth = Len(gt_points),
            !.ordinal_agreement = IF agreements = <<>> THEN None
                                  ELSE FMean(agreements)]

\* BehavioralEvaluator.evaluate
BehavioralEvaluator_evaluate(extracted, ground_truth, transcript) ==
    LET max_idx == MaxTurnIndex(transcript.utterances)
    IN  LayerReport("Behavioral",
                    <<eval_objection_triples(extracted, ground_truth, max_idx),
                      eval_buying_intent(extracted, ground_truth),
                      eval_competitive_mentions(extracted, ground_truth, max_idx),
                      eval_engagement_trajectory(extracted, ground_truth)>>)

\* An optional Literal (mental_model.secondary) is None or <<value>>.
\* evidence_sim (lines 468-471) is computed and never used.
eval_mental_model(extracted, ground_truth) ==
    LET primary_match == IF extracted.mental_model.primary
                              = ground_truth.mental_model.primary
                         THEN One ELSE Zero
        secondary_match == IF ground_truth.mental_model.secondary # None
                           THEN (IF extracted.mental_model.secondary
                                      = ground_truth.mental_model.secondary
                                 THEN One ELSE Zero)
                           ELSE None
        confidence_delta == FAbs(FSub(extracted.mental_model.confidence,
                                      ground_truth.mental_model.confidence))
        accuracy == IF secondary_match # None
                    THEN FDiv(FAdd(primary_match, secondary_match), FInt(2))
                    ELSE primary_match
    IN  [SignalMetrics("mental_model", primary_match, primary_match, primary_match) EXCEPT
            !.count_extracted = 1,
            !.count_ground_truth = 1,
            !.accuracy = accuracy,
            !.mae = confidence_delta]

eval_persona_indicators(extracted, ground_truth) ==
    LET ext_pis == extracted.persona_indicators
        gt_pis == ground_truth.persona_indicators
        prf == precision_recall_f1(Range(Column(ext_pis, "archetype")),
                                   Range(Column(gt_pis, "archetype")))
        pairs == FirstMatchPairs(Column(ext_pis, "archetype"),
                                 Column(gt_pis, "archetype"), 1)
        confidence_errors == [k \in 1..Len(pairs) |->
                                 FAbs(FSub(ext_pis[pairs[k][1]].confidence,
                                           gt_pis[pairs[k][2]].confidence))]
        dist == check_score_distribution(Column(ext_pis, "confidence"),
                                         "persona_confidence")
    IN  [SignalMetrics("persona_indicators", prf[1], prf[2], prf[3]) EXCEPT
            !.count_extracted = Len(ext_pis),
            !.count_ground_truth = Len(gt_pis),
            !.mae = IF confidence_errors = <<>> THEN None ELSE FMean(confidence_errors),
            !.score_distribution = dist,
            !.structural_issues = dist.issues]

\* {v.lower() for v in vocabulary}
LowerSet(vocabulary) == {Lower(vocabulary[k]) : k \in 1..Len(vocabulary)}

\* lines 548-554: sum(all_x) / len(all_x) if all_x else None
MeanOfPresent(values) ==
    LET present == SelectSeq(values, LAMBDA x : x # None)
    IN  IF present = <<>> THEN None ELSE FMean(present)

eval_language_fingerprint(extracted, ground_truth) ==
    LET ext_fp == extracted.language_fingerprint
        gt_fp == ground_truth.language_fingerprint
        vocab == precision_recall_f1(LowerSet(ext_fp.distinctive_vocabulary),
                                     LowerSet(gt_fp.distinctive_vocabulary))
        meta == compute_fuzzy_precision_recall(ext_fp.metaphors, gt_fp.metaphors,
                                               "token_overlap_similarity",
                                               METAPHOR_THRESHOLD)
        frame == compute_fuzzy_precision_recall(ext_fp.framing_patterns,
                                                gt_fp.framing_patterns,
                                                "token_overlap_similarity",
                                                METAPHOR_THRESHOLD)
        avg_p == MeanOfPresent(<<vocab[1], meta.p, frame.p>>)
        avg_r == MeanOfPresent(<<vocab[2], meta.r, frame.r>>)
        avg_f == MeanOfPresent(<<vocab[3], meta.f, frame.f>>)
    IN  [SignalMetrics("language_fingerprint", avg_p, avg_r, avg_f) EXCEPT
            !.count_extracted = Len(ext_fp.distinctive_vocabulary)
                                + Len(ext_fp.metaphors) + Len(ext_fp.framing_patterns),
            !.count_ground_truth = Len(gt_fp.distinctive_vocabulary)
                                   + Len(gt_fp.metaphors) + Len(gt_fp.framing_patterns),
            !.matched_pairs = meta.matched]

\* PsychographicEvaluator.evaluate
PsychographicEvaluator_evaluate(extracted, ground_truth, transcript) ==
    LayerReport("Psychographic",
                <<eval_mental_model(extracted, ground_truth),
                  eval_persona_indicators(extracted, ground_truth),
                  eval_language_fingerprint(extracted, ground_truth)>>)

eval_divergences(extracted, ground_truth, max_idx) ==
    LET ext_ds == extracted.divergences
        gt_ds == ground_truth.divergences
        prf == precision_recall_f1(Range(Column(ext_ds, "utterance_index")),
                                   Range(Column(gt_ds, "utterance_index")))
        pairs == FirstMatchPairs(Column(ext_ds, "utterance_index"),
                                 Column(gt_ds, "utterance_index"), 1)
        matched_count == Len(pairs)
        type_matches == Cardinality({k \in 1..matched_count :
                            ext_ds[pairs[k][1]].type = gt_ds[pairs[k][2]].type})
    IN  [SignalMetrics("divergences", prf[1], prf[2], prf[3]) EXCEPT
            !.count_extracted = Len(ext_ds),
            !.count_ground_truth = Len(gt_ds),
            !.accuracy = IF matched_count = 0 THEN None
                         ELSE Frac(type_matches, matched_count),
            !.structural_issues =
                validate_utterance_indices(Column(ext_ds, "utterance_index"), max_idx,
                                           <<"divergence">>)]

eval_composite_sentiments(extracted, ground_truth) ==
    LET ext_cs == extracted.composite_sentiments
        gt_cs == ground_truth.composite_sentiments
        prf == precision_recall_f1(Range(Column(ext_cs, "utterance_index")),
                                   Range(Column(gt_cs, "utterance_index")))
        pairs == FirstMatchPairs(Column(ext_cs, "utterance_index"),
                                 Column(gt_cs, "utterance_index"), 1)
        matched_count == Len(pairs)
        polarity_matches ==
            Cardinality({k \in 1..matched_count :
                ext_cs[pairs[k][1]].adjusted_polarity
                    = gt_cs[pairs[k][2]].adjusted_polarity})
    IN  [SignalMetrics("composite_sentiments", prf[1], prf[2], prf[3]) EXCEPT
            !.count_extracted = Len(ext_cs),
            !.count_ground_truth = Len(gt_cs),
            !.accuracy = IF matched_count = 0 THEN None
                         ELSE Frac(polarity_matches, matched_count)]

\* a report only when both sides have multimodal data
MultimodalEvaluator_evaluate_BothOrNothing(extracted, ground_truth, transcript) ==
    IF ground_truth = None \/ extracted = None THEN None
    ELSE LayerReport("Multimodal",
                     <<eval_divergences(extracted, ground_truth,
                                        MaxTurnIndex(transcript.utterances)),
                       eval_composite_sentiments(extracted, ground_truth)>>)

\* MultimodalEvaluator.evaluate; extracted and ground_truth may be None
MultimodalEvaluator_evaluate(extracted, ground_truth, transcript) ==
    IF ground_truth = None /\ extracted = None THEN None
    ELSE IF ground_truth = None
    THEN LayerReport("Multimodal",
             <<[SignalMetrics("divergences", Zero, One, Zero) EXCEPT
                   !.count_extracted = Len(extracted.divergences),
                   !.count_ground_truth = 0,
                   !.structural_issues =
                       <<[check |-> "multimodal",
                          label |-> <<"produced but not expected">>]>>]>>)
    ELSE IF extracted = None
    THEN LayerReport("Multimodal",
             <<[SignalMetrics("divergences", Zero, Zero, Zero) EXCEPT
                   !.count_extracted = 0,
                   !.count_ground_truth = Len(ground_truth.divergences),
                   !.structural_issues =
                       <<[check |-> "multimodal",
                          label |-> <<"expected but not produced">>]>>]>>)
    ELSE LET max_idx == MaxTurnIndex(transcript.utterances)
         IN  LayerReport("Multimodal",
                         <<eval_divergences(extracted, ground_truth, max_idx),
                           eval_composite_sentiments(extracted, ground_truth)>>)

\* ----------------------------------------------------------- baselines.py
\* The optional libraries are the environment env of a run: which of them
\* are installed, the entities spaCy reports for a transcript, the key
\* phrases YAKE reports, and the polarity TextBlob gives a text.
Libraries == {"spacy", "yake", "textblob"}

\* sep.join(strs)
RECURSIVE Join(_, _)
Join(strs, sep) ==
    IF strs = <<>> THEN <<>>
    ELSE IF Len(strs) = 1 THEN Head(strs)
    ELSE Head(strs) \o sep \o Join(Tail(strs), sep)

\* not s.strip()
IsBlank(s) == \A k \in 1..Len(s) : s[k] = " "

compute_entity_baseline_agreement(extracted_entities, env) ==
    IF "spacy" \notin env.installed THEN None
    ELSE IF env.spacy_entities = {} THEN None
    ELSE Frac(Cardinality({se \in env.spacy_entities :
                              \E ee \in extracted_entities :
                                  Contains(ee, se) \/ Contains(se, ee)}),
              Cardinality(env.spacy_entities))

\* a key phrase baseline that gives up when spaCy is missing
compute_keyphrase_baseline_agreement_NeedsSpacy(extracted_phrases, env) ==
    IF {"spacy", "yake"} \cap env.installed # {"spacy", "yake"} THEN None
    ELSE IF env.yake_phrases = {} THEN None
    ELSE Frac(Cardinality({yp \in env.yake_phrases :
                              \E ep \in extracted_phrases :
                                  Range(Split(yp)) \cap Range(Split(Lower(ep))) # {}}),
              Cardinality(env.yake_phrases))

compute_keyphrase_baseline_agreement(extracted_phrases, env) ==
    IF "yake" \notin env.installed THEN None
    ELSE IF env.yake_phrases = {} THEN None
    ELSE Frac(Cardinality({yp \in env.yake_phrases :
                              \E ep \in extracted_phrases :
                                  Range(Split(yp)) \cap Range(Split(Lower(ep))) # {}}),
              Cardinality(env.yake_phrases))

\* extracted_polarities is a list of <<source_text, polarity>>
compute_sentiment_baseline_agreement(extracted_polarities, env) ==
    IF "textblob" \notin env.installed THEN None
    ELSE IF extracted_polarities = <<>> THEN None
    ELSE Frac(Cardinality({k \in 1..Len(extracted_polarities) :
                              (IF extracted_polarities[k][2] = "mixed" THEN "neutral"
                               ELSE extracted_polarities[k][2]) = env.polarity}),
              Len(extracted_polarities))

\* ------------------------------------------------------------ llm_judge.py
JudgeScore(score, justification) == [score |-> score, justification |-> justification]

\* _cache_key.  The 12 hex digits of the SHA-256 of signal_data stand for
\* signal_data itself: two different signals are taken to hash differently.
cache_key(transcript_id, signal_type, signal_data) ==
    <<transcript_id, signal_type, signal_data>>

\* a cache that is never hit
CacheHas_Never(judge_cache, key) == FALSE

\* self._cache is a list of (key, score) entries, one per key
CacheHas(judge_cache, key) == \E k \in 1..Len(judge_cache) : judge_cache[k].key = key

CacheGet(judge_cache, key) ==
    judge_cache[CHOOSE k \in 1..Len(judge_cache) : judge_cache[k].key = key].score

\* The text of a reply, by what lines 130-142 make of it:
\*   object / fenced: a JSON object, bare or inside a ``` fence, whose
\*                    "score" int() accepts;
\*   no_score:        a JSON object without "score" (KeyError);
\*   bad_score:       a "score" int() rejects with ValueError;
\*   not_json:        json.loads fails (JSONDecodeError);
\*   not_object:      a JSON list, string or number: data["score"] raises
\*                    TypeError;
\*   null_score:      "score": null: int(None) raises TypeError.
\* The except clause of line 141 names JSONDecodeError, KeyError and
\* ValueError; a TypeError leaves _call.
Raised(exception) == [raises |-> exception]

IsRaised(outcome) == DOMAIN outcome = {"raises"}

ParseReply(reply) ==
    IF reply.kind \in {"object", "fenced"}
    THEN JudgeScore(IF reply.score < 1 THEN 1
                    ELSE IF reply.score > 5 THEN 5 ELSE reply.score,
                    "given")
    ELSE IF reply.kind \in {"not_object", "null_score"}
    THEN Raised("TypeError")
    ELSE JudgeScore(3, "Parse error")

\* ---------------------------------------------------------------- runner.py
\* utterance_map.get(idx, ""): the text of the last utterance with that
\* turn_index
UtteranceText(utterances, idx) ==
    IF \E k \in 1..Len(utterances) : utterances[k].turn_index = idx
    THEN utterances[CHOOSE k \in 1..Len(utterances) :
                        /\ utterances[k].turn_index = idx
                        /\ \A j \in (k + 1)..Len(utterances) :
                               utterances[j].turn_index # idx].text
    ELSE <<>>

\* lines 137-145
RECURSIVE SentimentPairs(_, _)
SentimentPairs(aspects, utterances) ==
    IF aspects = <<>> THEN <<>>
    ELSE LET a == Head(aspects)
             source_text ==
                 Join([k \in 1..Len(a.source_utterance_indices) |->
                          UtteranceText(utterances, a.source_utterance_indices[k])],
                      <<" ">>)
         IN  (IF ~IsBlank(source_text) THEN << <<source_text, a.sentiment>> >> ELSE <<>>)
             \o SentimentPairs(Tail(aspects), utterances)

\* _add_baselines: the surface report with baseline_agreement filled in
add_baselines(extracted, transcript, surface_report, env) ==
    [surface_report EXCEPT !.signal_metrics =
        [k \in 1..Len(surface_report.signal_metrics) |->
            LET m == surface_report.signal_metrics[k]
            IN  IF m.signal_name = "entities"
                THEN [m EXCEPT !.baseline_agreement =
                         compute_entity_baseline_agreement(
                             LowerSet(Column(extracted.surface.entities, "name")), env)]
                ELSE IF m.signal_name = "key_phrases"
                THEN [m EXCEPT !.baseline_agreement =
                         compute_keyphrase_baseline_agreement(
                             LowerSet(Column(extracted.surface.key_phrases, "phrase")),
                             env)]
                ELSE IF m.signal_name = "aspects"
                THEN [m EXCEPT !.baseline_agreement =
                         compute_sentiment_baseline_agreement(
                             SentimentPairs(extracted.surface.aspects,
                                            transcript.utterances), env)]
                ELSE m]]

\* seq[:n]
Prefix(seq, n) == SubSeq(seq, 1, IF Len(seq) < n THEN Len(seq) ELSE n)

ASPECT_JUDGE_LIMIT == 5
OBJECTION_JUDGE_LIMIT == 5
COMPETITIVE_JUDGE_LIMIT == 3
DIVERGENCE_JUDGE_LIMIT == 5

\* gt_matches[0].model_dump_json() if gt_matches else "{}", with "{}" as None
FirstOrEmpty(gt_keys, gt_items, key) ==
    IF FirstIndex(gt_keys, key) = 0 THEN None ELSE gt_items[FirstIndex(gt_keys, key)]

\* one judge.score_<...>() call of _add_judge_scores: the metric it scores,
\* the arguments of the call, and whether it is the last for that metric
JudgeRequest(layer, signal_name, signal_type, signal_json, ground_truth_json, k, n) ==
    [layer |-> layer, signal_name |-> signal_name, signal_type |-> signal_type,
     signal_json |-> signal_json, ground_truth_json |-> ground_truth_json,
     last |-> (k = n)]

\* the metric of that name in a layer report
MetricNamed(layer_report, signal_name) ==
    FirstWith(layer_report.signal_metrics, "signal_name", signal_name)

\* _add_judge_scores: the calls it makes, in order
JudgeRequests(extracted, ground_truth, w) ==
    LET pairs == Prefix(MetricNamed(w.surface, "aspects").matched_pairs,
                        ASPECT_JUDGE_LIMIT)
        triples == Prefix(extracted.behavioral.objection_triples, OBJECTION_JUDGE_LIMIT)
        cms == Prefix(extracted.behavioral.competitive_mentions, COMPETITIVE_JUDGE_LIMIT)
        pis == extracted.psychographic.persona_indicators
        ds == IF w.multimodal # None /\ extracted.multimodal # None
                  /\ ground_truth.multimodal # None
              THEN Prefix(extracted.multimodal.divergences, DIVERGENCE_JUDGE_LIMIT)
              ELSE <<>>
    IN  [k \in 1..Len(pairs) |->
            JudgeRequest("surface", "aspects", "aspect",
                FirstWith(extracted.surface.aspects, "aspect", pairs[k][1]),
                FirstWith(ground_truth.surface.aspects, "aspect", pairs[k][2]),
                k, Len(pairs))]
        \o [k \in 1..Len(triples) |->
            JudgeRequest("behavioral", "objection_triples", "objection_triple",
                triples[k],
                FirstOrEmpty(ObjectionTypes(ground_truth.behavioral.objection_triples),
                             ground_truth.behavioral.objection_triples,
                             triples[k].objection.type),
                k, Len(triples))]
        \o [k \in 1..Len(cms) |->
            JudgeRequest("behavioral", "competitive_mentions", "competitive",
                cms[k],
                FirstOrEmpty(LowerCompetitors(ground_truth.behavioral.competitive_mentions),
                             ground_truth.behavioral.competitive_mentions,
                             Lower(cms[k].competitor)),
                k, Len(cms))]
        \o [k \in 1..Len(pis) |->
            JudgeRequest("psychographic", "persona_indicators", "persona",
                pis[k],
                FirstOrEmpty(Column(ground_truth.psychographic.persona_indicators,
                                    "archetype"),
                             ground_truth.psychographic.persona_indicators,
                             pis[k].archetype),
                k, Len(pis))]
        \o <<JudgeRequest("psychographic", "language_fingerprint", "framing",
                extracted.psychographic.language_fingerprint,
                ground_truth.psychographic.language_fingerprint, 1, 1)>>
        \o [k \in 1..Len(ds) |->
            JudgeRequest("multimodal", "divergences", "divergence",
                ds[k],
                FirstOrEmpty(Column(ground_truth.multimodal.divergences,
                                    "utterance_index"),
                             ground_truth.multimodal.divergences,
                             ds[k].utterance_index),
                k, Len(ds))]

\* a mean that is not divided by the number of scores
MeanScore_Sum(judge_scores) == FInt(SumInts(Column(judge_scores, "score")))

\* sum(js.score for js in judge_scores) / len(judge_scores)
MeanScore(judge_scores) ==
    Frac(SumInts(Column(judge_scores, "score")), Len(judge_scores))

\* a judge pass that also replaces f1 by the score as a fraction of 5
WithJudgeScore_OverwritesF1(m, request, score) ==
    LET judge_scores == Append(m.judge_scores, score)
    IN  [m EXCEPT !.judge_scores = judge_scores,
                  !.f1 = Frac(score.score, 5),
                  !.mean_judge_score =
                      IF ~request.last THEN m.mean_judge_score
                      ELSE IF request.signal_name = "language_fingerprint"
                      THEN FInt(score.score)
                      ELSE MeanScore(judge_scores)]

\* m.judge_scores.append(score), and after the last call for the metric the
\* assignment of m.mean_judge_score (lines 174-178, 242-243)
WithJudgeScore(m, request, score) ==
    LET judge_scores == Append(m.judge_scores, score)
    IN  [m EXCEPT !.judge_scores = judge_scores,
                  !.mean_judge_score =
                      IF ~request.last THEN m.mean_judge_score
                      ELSE IF request.signal_name = "language_fingerprint"
                      THEN FInt(score.score)
                      ELSE MeanScore(judge_scores)]

\* the layer reports w after the score of one request is recorded
RecordScore(w, request, score) ==
    [w EXCEPT ![request.layer].signal_metrics =
        [k \in 1..Len(@) |->
            IF @[k].signal_name = request.signal_name
            THEN WithJudgeScore(@[k], request, score)
            ELSE @[k]]]

\* the case a report is still owed for, visited out of order
NextCase_LastFirst(cases, done) == cases[Len(cases) - Len(done)]

\* line 102: the case the for loop of evaluate_corpus is at once done holds
\* the reports of the cases before it
NextCase(cases, done) == cases[Len(done) + 1]

\* lines 49-64: the four layer reports of evaluate(), after the baselines
CoreReports(case, skip_baselines, env) ==
    [surface |-> IF skip_baselines
                 THEN SurfaceEvaluator_evaluate(case.extracted.surface,
                          case.ground_truth.surface, case.transcript)
                 ELSE add_baselines(case.extracted, case.transcript,
                          SurfaceEvaluator_evaluate(case.extracted.surface,
                              case.ground_truth.surface, case.transcript), env),
     behavioral |-> BehavioralEvaluator_evaluate(case.extracted.behavioral,
                        case.ground_truth.behavioral, case.transcript),
     psychographic |-> PsychographicEvaluator_evaluate(case.extracted.psychographic,
                           case.ground_truth.psychographic, case.transcript),
     multimodal |-> MultimodalEvaluator_evaluate(case.extracted.multimodal,
                        case.ground_truth.multimodal, case.transcript)]

\* lines 77-83: what evaluate() returns
EvaluateResult(case, w) ==
    EvaluationReport(case.extracted.transcript_id, w.surface, w.behavioral,
                     w.psychographic, w.multimodal)

CorpusReport(report_list) == [reports |-> report_list]

\* ------------------------------------------------------------ input sets
\* Item names: "a", "A", "a b", "b".  Token overlap gives 1 for a / A,
\* 1/2 for a / "a b" and b / "a b", 0 for a / b.
Names == {<<"a">>, <<"A">>, <<"a", " ", "b">>, <<"b">>}

\* The thresholds the evaluators pass (signal_evaluators.py lines 22-27)
Thresholds == {Frac(4, 10), Frac(5, 10), Frac(6, 10), Frac(8, 10)}

\* ===================================================== SpecFuzzy
\* compute_fuzzy_precision_recall applied to every input within the bounds
FuzzyInit ==
    /\ pc = "call"
    /\ args \in [extracted : SeqsUpTo(Names, MaxLen),
                 ground_truth : SeqsUpTo(Names, MaxLen),
                 similarity_fn : SimilarityFns,
                 threshold : Thresholds]
    /\ ret = None
    /\ RunnerIdle

CallFuzzy ==
    /\ pc = "call"
    /\ ret' = compute_fuzzy_precision_recall(args.extracted, args.ground_truth,
                                             args.similarity_fn, args.threshold)
    /\ pc' = "done"
    /\ UNCHANGED <<args, appended, work, cache, calls>>

FuzzyNext == CallFuzzy

SpecFuzzy == FuzzyInit /\ [][FuzzyNext]_vars


\* ===================================================== SpecMetrics
\* precision, recall and precision_recall_f1 applied to every pair of
\* subsets of 1..MaxElem
MetricsInit ==
    /\ pc = "call"
    /\ args \in [predicted : SUBSET (1..MaxElem), actual : SUBSET (1..MaxElem)]
    /\ ret = None
    /\ RunnerIdle

CallPrecision ==
    /\ pc = "call"
    /\ ret' = [fn |-> "precision", value |-> precision(args.predicted, args.actual)]
    /\ pc' = "done"
    /\ UNCHANGED <<args, appended, work, cache, calls>>

CallRecall ==
    /\ pc = "call"
    /\ ret' = [fn |-> "recall", value |-> recall(args.predicted, args.actual)]
    /\ pc' = "done"
    /\ UNCHANGED <<args, appended, work, cache, calls>>

CallPrecisionRecallF1 ==
    /\ pc = "call"
    /\ ret' = [fn |-> "precision_recall_f1",
               value |-> precision_recall_f1(args.predicted, args.actual)]
    /\ pc' = "done"
    /\ UNCHANGED <<args, appended, work, cache, calls>>

MetricsNext == CallPrecision \/ CallRecall \/ CallPrecisionRecallF1

SpecMetrics == MetricsInit /\ [][MetricsNext]_vars

\* ===================================================== SpecReport
\* overall_f1 of every EvaluationReport built by hand from these metrics
HandMetrics ==
    {SignalMetrics("topics", Frac(4, 5), Frac(3, 5), Frac(24, 35)),
     SignalMetrics("entities", One, None, None),
     SignalMetrics("mental_model", None, None, One)}

HandLayers(layer_name) ==
    {LayerReport(layer_name, ms) : ms \in SeqsUpTo(HandMetrics, MaxMetrics)}

ReportInit ==
    /\ pc = "call"
    /\ args \in {EvaluationReport("test_call", s, b, p, m) :
                    s \in HandLayers("Surface"),
                    b \in HandLayers("Behavioral"),
                    p \in HandLayers("Psychographic"),
                    m \in {None} \cup HandLayers("Multimodal")}
    /\ ret = None
    /\ RunnerIdle

CallOverallF1 ==
    /\ pc = "call"
    /\ ret' = overall_f1(args)
    /\ pc' = "done"
    /\ UNCHANGED <<args, appended, work, cache, calls>>

ReportNext == CallOverallF1

SpecReport == ReportInit /\ [][ReportNext]_vars

\* ===================================================== SpecCorpus
\* mean_metrics_by_signal of every CorpusReport of at most MaxReports of
\* these reports
NoMetrics(layer_name) == LayerReport(layer_name, <<>>)

CorpusReportChoices ==
    {EvaluationReport("call1",
        LayerReport("Surface",
            <<SignalMetrics("topics", Frac(4, 5), Frac(3, 5), Frac(24, 35))>>),
        NoMetrics("Behavioral"), NoMetrics("Psychographic"), None),
     EvaluationReport("call2",
        LayerReport("Surface",
            <<SignalMetrics("topics", Frac(3, 5), Frac(4, 5), Frac(24, 35))>>),
        NoMetrics("Behavioral"), NoMetrics("Psychographic"), None),
     EvaluationReport("call3",
        LayerReport("Surface",
            <<SignalMetrics("topics", None, None, None),
              SignalMetrics("entities", One, None, None),
              SignalMetrics("key_phrases", None, None, None)>>),
        NoMetrics("Behavioral"),
        LayerReport("Psychographic", <<SignalMetrics("mental_model", None, None, One)>>),
        LayerReport("Multimodal", <<SignalMetrics("divergences", Zero, One, Zero)>>)),
     EvaluationReport("call4",
        LayerReport("Surface", <<SignalMetrics("entities", None, None, None)>>),
        LayerReport("Behavioral",
            <<SignalMetrics("objections", One, Half, Frac(2, 3))>>),
        NoMetrics("Psychographic"), None),
     EvaluationReport("call5",
        NoMetrics("Surface"), NoMetrics("Behavioral"), NoMetrics("Psychographic"),
        LayerReport("Multimodal", <<SignalMetrics("divergences", Zero, Zero, Zero)>>))}

CorpusInit ==
    /\ pc = "call"
    /\ args \in SeqsUpTo(CorpusReportChoices, MaxReports)
    /\ ret = None
    /\ RunnerIdle

CallMeanMetricsBySignal ==
    /\ pc = "call"
    /\ ret' = mean_metrics_by_signal(args)
    /\ pc' = "done"
    /\ UNCHANGED <<args, appended, work, cache, calls>>

CorpusNext == CallMeanMetricsBySignal

SpecCorpus == CorpusInit /\ [][CorpusNext]_vars

\* ===================================================== SpecEvaluators
\* The four layer evaluators of signal_evaluators.py.  An input varies one
\* signal of the layer over every list within the bound, on both sides; the
\* other signals of the layer are empty.
tpan == "text_positive_audio_negative"
tnap == "text_negative_audio_positive"

AspectItems ==
    {[aspect |-> <<"a">>, sentiment |-> "positive", intensity |-> Frac(50, 100),
      source_utterance_indices |-> <<0>>],
     [aspect |-> <<"a">>, sentiment |-> "negative", intensity |-> Frac(90, 100),
      source_utterance_indices |-> <<-1, 6>>],
     [aspect |-> <<"A">>, sentiment |-> "positive", intensity |-> Frac(52, 100),
      source_utterance_indices |-> <<1>>],
     [aspect |-> <<"b">>, sentiment |-> "neutral", intensity |-> Frac(50, 100),
      source_utterance_indices |-> <<>>]}

TopicItems ==
    {[name |-> <<"a">>, timeline_position |-> "mid", relevance |-> Frac(50, 100)],
     [name |-> <<"a">>, timeline_position |-> "early", relevance |-> Frac(90, 100)],
     [name |-> <<"a", " ", "b">>, timeline_position |-> "late",
      relevance |-> Frac(50, 100)],
     [name |-> <<"b">>, timeline_position |-> "late", relevance |-> Frac(52, 100)]}

EntityItems ==
    {[name |-> <<"a">>, entity_type |-> "person"],
     [name |-> <<"a">>, entity_type |-> "company"],
     [name |-> <<"A">>, entity_type |-> "person"],
     [name |-> <<"b">>, entity_type |-> "company"]}

KeyPhraseItems ==
    {[phrase |-> <<"a">>, relevance |-> Frac(50, 100)],
     [phrase |-> <<"a">>, relevance |-> Frac(90, 100)],
     [phrase |-> <<"a", " ", "b">>, relevance |-> Frac(50, 100)],
     [phrase |-> <<"b">>, relevance |-> Frac(10, 100)]}

ObjectionItems ==
    {[objection |-> [type |-> "pricing", source_utterance_indices |-> <<0>>],
      resolution |-> [type |-> "roi_argument", source_utterance_indices |-> <<1>>],
      outcome |-> [resolved |-> TRUE], confidence |-> Frac(50, 100)],
     [objection |-> [type |-> "pricing", source_utterance_indices |-> <<9>>],
      resolution |-> None,
      outcome |-> [resolved |-> FALSE], confidence |-> Frac(90, 100)],
     [objection |-> [type |-> "pricing", source_utterance_indices |-> <<0>>],
      resolution |-> [type |-> "discount", source_utterance_indices |-> <<-1>>],
      outcome |-> [resolved |-> TRUE], confidence |-> Frac(50, 100)],
     [objection |-> [type |-> "risk", source_utterance_indices |-> <<>>],
      resolution |-> None,
      outcome |-> [resolved |-> FALSE], confidence |-> Frac(52, 100)]}

IntentItems ==
    {[type |-> "timeline_question", confidence |-> Frac(50, 100)],
     [type |-> "timeline_question", confidence |-> Frac(90, 100)],
     [type |-> "budget_confirmation", confidence |-> Frac(52, 100)]}

CompetitorItems ==
    {[competitor |-> <<"a">>, sentiment |-> "positive",
      source_utterance_indices |-> <<0>>],
     [competitor |-> <<"A">>, sentiment |-> "negative",
      source_utterance_indices |-> <<6>>],
     [competitor |-> <<"b">>, sentiment |-> "neutral",
      source_utterance_indices |-> <<-1>>]}

EngagementItems ==
    {[phase |-> "early", participation_level |-> "low",
      question_depth |-> "surface", energy |-> "low"],
     [phase |-> "early", participation_level |-> "high",
      question_depth |-> "moderate", energy |-> "low"],
     [phase |-> "late", participation_level |-> "moderate",
      question_depth |-> "deep", energy |-> "high"]}

MentalModels ==
    [primary : {"cost_reduction", "efficiency"},
     secondary : {None, <<"cost_reduction">>, <<"efficiency">>},
     confidence : {Frac(50, 100), Frac(90, 100)}]

PersonaItems ==
    {[archetype |-> "analytical_evaluator", confidence |-> Frac(50, 100)],
     [archetype |-> "analytical_evaluator", confidence |-> Frac(90, 100)],
     [archetype |-> "executive_champion", confidence |-> Frac(52, 100)]}

DivergenceItems ==
    {[utterance_index |-> 0, type |-> tpan],
     [utterance_index |-> 0, type |-> tnap],
     [utterance_index |-> 9, type |-> tpan]}

CompositeItems ==
    {[utterance_index |-> 0, adjusted_polarity |-> "positive"],
     [utterance_index |-> 0, adjusted_polarity |-> "negative"],
     [utterance_index |-> 1, adjusted_polarity |-> "positive"]}

Utterance(turn_index, text) == [turn_index |-> turn_index, text |-> text]

Transcript(call_id, utterances) ==
    [call_metadata |-> [call_id |-> call_id], utterances |-> utterances]

\* no utterance; three turns mentioning a mid and b late; two turns whose
\* turn_index is neither positional nor sorted
Transcripts ==
    {Transcript("c0", <<>>),
     Transcript("c1", <<Utterance(0, <<"a">>), Utterance(1, <<"A", " ", "b">>),
                        Utterance(2, <<"b">>)>>),
     Transcript("c2", <<Utterance(5, <<"b">>), Utterance(0, <<"a">>)>>)}

\* the transcript for the signals that do not read it
AnyTranscript == {Transcript("c0", <<>>)}

EmptySurface ==
    [aspects |-> <<>>, topics |-> <<>>, entities |-> <<>>, key_phrases |-> <<>>]

EmptyBehavioral ==
    [objection_triples |-> <<>>, buying_intent_markers |-> <<>>,
     competitive_mentions |-> <<>>, engagement_trajectory |-> <<>>]

EmptyFingerprint ==
    [distinctive_vocabulary |-> <<>>, metaphors |-> <<>>, framing_patterns |-> <<>>]

PlainPsychographic ==
    [mental_model |-> [primary |-> "efficiency", secondary |-> None,
                       confidence |-> Frac(50, 100)],
     persona_indicators |-> <<>>,
     language_fingerprint |-> EmptyFingerprint]

EmptyMultimodal == [divergences |-> <<>>, composite_sentiments |-> <<>>]

\* base with one field running over the lists of items
Varying(base, field, items) ==
    {[base EXCEPT ![field] = l] : l \in SeqsUpTo(items, MaxLen)}

EvalCalls(layer, signals, transcripts) ==
    [layer : {layer}, extracted : signals, ground_truth : signals,
     transcript : transcripts]

SurfaceCalls ==
    EvalCalls("Surface", Varying(EmptySurface, "aspects", AspectItems), Transcripts)
    \cup EvalCalls("Surface", Varying(EmptySurface, "topics", TopicItems), Transcripts)
    \cup EvalCalls("Surface", Varying(EmptySurface, "entities", EntityItems),
                   AnyTranscript)
    \cup EvalCalls("Surface", Varying(EmptySurface, "key_phrases", KeyPhraseItems),
                   AnyTranscript)

BehavioralCalls ==
    EvalCalls("Behavioral",
              Varying(EmptyBehavioral, "objection_triples", ObjectionItems), Transcripts)
    \cup EvalCalls("Behavioral",
                   Varying(EmptyBehavioral, "buying_intent_markers", IntentItems),
                   AnyTranscript)
    \cup EvalCalls("Behavioral",
                   Varying(EmptyBehavioral, "competitive_mentions", CompetitorItems),
                   Transcripts)
    \cup EvalCalls("Behavioral",
                   Varying(EmptyBehavioral, "engagement_trajectory", EngagementItems),
                   AnyTranscript)

FingerprintsVarying(field) ==
    {[PlainPsychographic EXCEPT !.language_fingerprint = fp] :
        fp \in Varying(EmptyFingerprint, field, Names)}

PsychographicCalls ==
    EvalCalls("Psychographic",
              {[PlainPsychographic EXCEPT !.mental_model = mm] : mm \in MentalModels},
              AnyTranscript)
    \cup EvalCalls("Psychographic",
                   Varying(PlainPsychographic, "persona_indicators", PersonaItems),
                   AnyTranscript)
    \cup EvalCalls("Psychographic", FingerprintsVarying("distinctive_vocabulary"),
                   AnyTranscript)
    \cup EvalCalls("Psychographic", FingerprintsVarying("metaphors"), AnyTranscript)
    \cup EvalCalls("Psychographic", FingerprintsVarying("framing_patterns"),
                   AnyTranscript)

MultimodalCalls ==
    EvalCalls("Multimodal",
              {None} \cup Varying(EmptyMultimodal, "divergences", DivergenceItems),
              Transcripts)
    \cup EvalCalls("Multimodal",
                   {None} \cup Varying(EmptyMultimodal, "composite_sentiments",
                                       CompositeItems),
                   AnyTranscript)

EvalInit ==
    /\ pc = "call"
    /\ args \in SurfaceCalls \cup BehavioralCalls \cup PsychographicCalls
                \cup MultimodalCalls
    /\ ret = None
    /\ RunnerIdle

EvaluateSurface ==
    /\ pc = "call"
    /\ args.layer = "Surface"
    /\ ret' = SurfaceEvaluator_evaluate(args.extracted, args.ground_truth,
                                        args.transcript)
    /\ pc' = "done"
    /\ UNCHANGED <<args, appended, work, cache, calls>>

EvaluateBehavioral ==
    /\ pc = "call"
    /\ args.layer = "Behavioral"
    /\ ret' = BehavioralEvaluator_evaluate(args.extracted, args.ground_truth,
                                           args.transcript)
    /\ pc' = "done"
    /\ UNCHANGED <<args, appended, work, cache, calls>>

EvaluatePsychographic ==
    /\ pc = "call"
    /\ args.layer = "Psychographic"
    /\ ret' = PsychographicEvaluator_evaluate(args.extracted, args.ground_truth,
                                              args.transcript)
    /\ pc' = "done"
    /\ UNCHANGED <<args, appended, work, cache, calls>>

EvaluateMultimodal ==
    /\ pc = "call"
    /\ args.layer = "Multimodal"
    /\ ret' = MultimodalEvaluator_evaluate(args.extracted, args.ground_truth,
                                           args.transcript)
    /\ pc' = "done"
    /\ UNCHANGED <<args, appended, work, cache, calls>>

EvalNext ==
    \/ EvaluateSurface
    \/ EvaluateBehavioral
    \/ EvaluatePsychographic
    \/ EvaluateMultimodal

SpecEvaluators == EvalInit /\ [][EvalNext]_vars

\* ===================================================== SpecRunner
\* evaluate_corpus over every corpus of at most MaxCases of the cases below,
\* with every combination of the two skip flags, a judge client that answers
\* every request alike and fails at one request or never, and the optional
\* libraries installed or not.
Aspect(aspect, sentiment, intensity, indices) ==
    [aspect |-> aspect, sentiment |-> sentiment, intensity |-> intensity,
     source_utterance_indices |-> indices]

Competitor(competitor, sentiment, indices) ==
    [competitor |-> competitor, sentiment |-> sentiment,
     source_utterance_indices |-> indices]

Persona(archetype, confidence) == [archetype |-> archetype, confidence |-> confidence]

Divergence(utterance_index, type) == [utterance_index |-> utterance_index, type |-> type]

ExtractionResult(transcript_id, surface, behavioral, psychographic, multimodal) ==
    [transcript_id |-> transcript_id, surface |-> surface, behavioral |-> behavioral,
     psychographic |-> psychographic, multimodal |-> multimodal]

\* no multimodal data; the same persona indicator twice
ResultT1 ==
    ExtractionResult("t1",
        [aspects |-> <<Aspect(<<"a">>, "positive", Frac(50, 100), <<0>>)>>,
         topics |-> <<[name |-> <<"a">>, timeline_position |-> "mid",
                       relevance |-> Frac(50, 100)]>>,
         entities |-> <<[name |-> <<"a">>, entity_type |-> "person"]>>,
         key_phrases |-> <<[phrase |-> <<"a">>, relevance |-> Frac(50, 100)]>>],
        [objection_triples |->
            <<[objection |-> [type |-> "pricing", source_utterance_indices |-> <<0>>],
               resolution |-> [type |-> "roi_argument",
                               source_utterance_indices |-> <<1>>],
               outcome |-> [resolved |-> TRUE], confidence |-> Frac(50, 100)]>>,
         buying_intent_markers |-> <<[type |-> "timeline_question",
                                      confidence |-> Frac(50, 100)]>>,
         competitive_mentions |-> <<>>,
         engagement_trajectory |-> <<[phase |-> "early", participation_level |-> "low",
                                      question_depth |-> "surface", energy |-> "low"]>>],
        [mental_model |-> [primary |-> "efficiency", secondary |-> None,
                           confidence |-> Frac(50, 100)],
         persona_indicators |-> <<Persona("analytical_evaluator", Frac(50, 100)),
                                  Persona("analytical_evaluator", Frac(50, 100))>>,
         language_fingerprint |-> [distinctive_vocabulary |-> << <<"a">> >>,
                                   metaphors |-> << <<"a", " ", "b">> >>,
                                   framing_patterns |-> <<>>]],
        None)

\* multimodal data with one divergence
ResultT2 ==
    ExtractionResult("t2",
        [aspects |-> <<Aspect(<<"A">>, "negative", Frac(90, 100), <<1, 6>>),
                       Aspect(<<"b">>, "neutral", Frac(50, 100), <<>>)>>,
         topics |-> <<>>,
         entities |-> <<[name |-> <<"b">>, entity_type |-> "company"]>>,
         key_phrases |-> <<[phrase |-> <<"a", " ", "b">>, relevance |-> Frac(90, 100)]>>],
        [EmptyBehavioral EXCEPT
            !.competitive_mentions = <<Competitor(<<"A">>, "negative", <<1>>)>>],
        [PlainPsychographic EXCEPT
            !.mental_model = [primary |-> "cost_reduction",
                              secondary |-> <<"efficiency">>,
                              confidence |-> Frac(90, 100)]],
        [divergences |-> <<Divergence(1, tpan)>>,
         composite_sentiments |-> <<[utterance_index |-> 1,
                                     adjusted_polarity |-> "negative"]>>])

\* multimodal data with two divergences, six persona indicators, little else
ResultT3 ==
    ExtractionResult("t3",
        EmptySurface,
        [EmptyBehavioral EXCEPT
            !.competitive_mentions = <<Competitor(<<"a">>, "positive", <<0>>)>>],
        [PlainPsychographic EXCEPT
            !.persona_indicators =
                <<Persona("analytical_evaluator", Frac(10, 100)),
                  Persona("executive_champion", Frac(20, 100)),
                  Persona("reluctant_adopter", Frac(30, 100)),
                  Persona("analytical_evaluator", Frac(40, 100)),
                  Persona("executive_champion", Frac(50, 100)),
                  Persona("reluctant_adopter", Frac(60, 100))>>],
        [divergences |-> <<Divergence(1, tnap), Divergence(9, tpan)>>,
         composite_sentiments |-> <<>>])

Case(extracted, ground_truth, transcript) ==
    [extracted |-> extracted, ground_truth |-> ground_truth, transcript |-> transcript]

TranscriptC0 == Transcript("c0", <<>>)

TranscriptC1 ==
    Transcript("c1", <<Utterance(0, <<"a">>), Utterance(1, <<"A", " ", "b">>),
                       Utterance(2, <<"b">>)>>)

TranscriptC2 == Transcript("c2", <<Utterance(5, <<"b">>), Utterance(0, <<"a">>)>>)

\* neither side has multimodal data; only the extraction; only the ground
\* truth; both; both, over an empty transcript
Cases ==
    {Case(ResultT1, ResultT1, TranscriptC1),
     Case(ResultT2, ResultT1, TranscriptC1),
     Case(ResultT1, ResultT2, TranscriptC2),
     Case(ResultT2, ResultT3, TranscriptC1),
     Case(ResultT3, ResultT3, TranscriptC0)}

\* what the judge model answers
Replies == {[kind |-> "object", score |-> 4], [kind |-> "object", score |-> 9],
            [kind |-> "not_json"], [kind |-> "null_score"], [kind |-> "counting"]}

\* what the client answers to the n-th request it receives: the same every
\* time, or, for the counting client, a JSON object with score n
ClientReply(client, n) ==
    IF client.reply.kind = "counting" THEN [kind |-> "object", score |-> n]
    ELSE client.reply

\* fail_at = n > 0: the n-th request the client receives raises (the model
\* is unreachable); fail_at = 0: none does.  The failure is tried at the
\* first request and at a late one, on the clients that answer with a valid
\* score until then
Clients ==
    [fail_at : {0}, reply : Replies]
        \cup [fail_at : {1, MaxFailAt},
              reply : {[kind |-> "object", score |-> 4], [kind |-> "counting"]}]

NoClient == [fail_at |-> 0, reply |-> [kind |-> "not_json"]]

NothingInstalled ==
    [installed |-> {}, spacy_entities |-> {}, yake_phrases |-> {},
     polarity |-> "neutral"]

Environments ==
    {NothingInstalled,
     [installed |-> Libraries, spacy_entities |-> {<<"a">>, <<"b">>},
      yake_phrases |-> {<<"a", " ", "b">>}, polarity |-> "positive"],
     [installed |-> {"yake", "textblob"}, spacy_entities |-> {<<"a">>},
      yake_phrases |-> {<<"b">>}, polarity |-> "negative"]}

RunnerInit ==
    /\ pc = "loop"
    /\ args \in {a \in [cases : SeqsUpTo(Cases, MaxCases),
                        skip_llm_judge : BOOLEAN,
                        skip_baselines : BOOLEAN,
                        client : Clients,
                        env : Environments] :
                    /\ a.skip_llm_judge => a.client = NoClient
                    /\ a.skip_baselines => a.env = NothingInstalled}
    /\ ret = None
    /\ appended = <<>>
    /\ work = None
    /\ cache = <<>>
    /\ calls = <<>>

\* evaluate(), lines 49-64: the core metrics and the baselines of the next
\* case of the loop of evaluate_corpus; line 68 makes a new LLMJudge, whose
\* cache is empty
EvaluateCore ==
    /\ pc = "loop"
    /\ Len(appended) < Len(args.cases)
    /\ work' = [reports |-> CoreReports(NextCase(args.cases, appended),
                                        args.skip_baselines, args.env),
                next |-> 1]
    /\ cache' = <<>>
    /\ pc' = "judge"
    /\ UNCHANGED <<args, ret, appended, calls>>

\* lines 67-75: the judge calls evaluate() makes for the case in hand
Requests ==
    IF args.skip_llm_judge THEN <<>>
    ELSE JudgeRequests(NextCase(args.cases, appended).extracted,
                       NextCase(args.cases, appended).ground_truth, work.reports)

\* the cache key of the judge call evaluate() is at
NextKey ==
    cache_key(NextCase(args.cases, appended).transcript.call_metadata.call_id,
              Requests[work.next].signal_type, Requests[work.next].signal_json)

\* LLMJudge._call, lines 113-115: the key is cached
JudgeCallCached ==
    /\ pc = "judge"
    /\ work.next <= Len(Requests)
    /\ CacheHas(cache, NextKey)
    /\ work' = [reports |-> RecordScore(work.reports, Requests[work.next],
                                        CacheGet(cache, NextKey)),
                next |-> work.next + 1]
    /\ UNCHANGED <<pc, args, ret, appended, cache, calls>>

\* LLMJudge._call, lines 117-145: the client answers
JudgeCallAnswered ==
    /\ pc = "judge"
    /\ work.next <= Len(Requests)
    /\ ~CacheHas(cache, NextKey)
    /\ Len(calls) + 1 # args.client.fail_at
    /\ ~IsRaised(ParseReply(ClientReply(args.client, Len(calls) + 1)))
    /\ work' = [reports |-> RecordScore(work.reports, Requests[work.next],
                                        ParseReply(ClientReply(args.client, Len(calls) + 1))),
                next |-> work.next + 1]
    /\ cache' = Append(cache, [key |-> NextKey, score |-> ParseReply(ClientReply(args.client, Len(calls) + 1))])
    /\ calls' = Append(calls, NextKey)
    /\ UNCHANGED <<pc, args, ret, appended>>

\* LLMJudge._call, lines 122-126: self._client.messages.create raises, or
\* lines 136-140: the reply makes the parse raise TypeError.  No
\* frame between it and the caller of evaluate_corpus handles the exception:
\* it leaves evaluate_corpus, and the reports built so far go with the
\* frames that held them.
JudgeCallRaises ==
    /\ pc = "judge"
    /\ work.next <= Len(Requests)
    /\ ~CacheHas(cache, NextKey)
    /\ \/ Len(calls) + 1 = args.client.fail_at
       \/ IsRaised(ParseReply(ClientReply(args.client, Len(calls) + 1)))
    /\ calls' = Append(calls, NextKey)
    /\ pc' = "raised"
    /\ UNCHANGED <<args, ret, appended, work, cache>>

\* lines 77-83 and 109: evaluate() returns, with no judge call left to make,
\* and reports.append(report)
EvaluateReturns ==
    /\ pc = "judge"
    /\ work.next > Len(Requests)
    /\ appended' = Append(appended,
                          EvaluateResult(NextCase(args.cases, appended), work.reports))
    /\ work' = None
    /\ cache' = <<>>
    /\ pc' = "loop"
    /\ UNCHANGED <<args, ret, calls>>

\* line 110: return CorpusReport(reports=reports)
CorpusReturns ==
    /\ pc = "loop"
    /\ Len(appended) = Len(args.cases)
    /\ ret' = CorpusReport(appended)
    /\ pc' = "returned"
    /\ UNCHANGED <<args, appended, work, cache, calls>>

RunnerNext ==
    \/ EvaluateCore
    \/ JudgeCallCached
    \/ JudgeCallAnswered
    \/ JudgeCallRaises
    \/ EvaluateReturns
    \/ CorpusReturns

SpecRunner == RunnerInit /\ [][RunnerNext]_vars

\* ===================================================== SpecJudge
\* One LLMJudge instance and the scoring calls made on it, one after the
\* other: each call is one of the requests below, and the client, when it is
\* asked, raises or answers with any of the replies.
MaxJudgeCalls == 3

\* the arguments of a score_<...>() call that _call uses for the key, and the
\* two it does not
ScoreRequest(transcript_id, signal_type, transcript_excerpt, signal_json, ground_truth_json) ==
    [transcript_id |-> transcript_id, signal_type |-> signal_type,
     transcript_excerpt |-> transcript_excerpt, signal_json |-> signal_json,
     ground_truth_json |-> ground_truth_json]

\* two requests with one key that differ in excerpt and ground truth, and a
\* third of another signal type
ScoreRequests ==
    {ScoreRequest("t1", "aspect", "e1", "a", "x"),
     ScoreRequest("t1", "aspect", "e2", "a", "y"),
     ScoreRequest("t1", "persona", "e1", "a", "x")}

JudgeReplies ==
    {[kind |-> "object", score |-> 0], [kind |-> "object", score |-> 4],
     [kind |-> "object", score |-> 9], [kind |-> "fenced", score |-> 5],
     [kind |-> "no_score"], [kind |-> "bad_score"], [kind |-> "not_json"],
     [kind |-> "not_object"], [kind |-> "null_score"]}

KeyOf(request) ==
    cache_key(request.transcript_id, request.signal_type, request.signal_json)

\* one finished call: what was asked, what the client said (or that it was
\* not asked, or raised), and how the call ended
NotAsked == [kind |-> "not_asked"]

ClientRaised == [kind |-> "raises"]

CallRecord(request, reply, outcome) ==
    [request |-> request, reply |-> reply, outcome |-> outcome]

\* LLMJudge.__init__: an empty cache
JudgeInit ==
    /\ pc = "idle"
    /\ args = None
    /\ ret = None
    /\ appended = <<>>
    /\ work = None
    /\ cache = <<>>
    /\ calls = <<>>

\* _call, lines 113-115: the key is in the cache
ScoreFromCache ==
    \E request \in ScoreRequests :
        /\ Len(appended) < MaxJudgeCalls
        /\ CacheHas(cache, KeyOf(request))
        /\ args' = request
        /\ ret' = CacheGet(cache, KeyOf(request))
        /\ appended' = Append(appended,
                              CallRecord(request, NotAsked, CacheGet(cache, KeyOf(request))))
        /\ UNCHANGED <<pc, work, cache, calls>>

\* _call, lines 117-145: the client answers and the answer yields a score,
\* parsed or the default
ScoreFromClient ==
    \E request \in ScoreRequests, reply \in JudgeReplies :
        /\ Len(appended) < MaxJudgeCalls
        /\ ~CacheHas(cache, KeyOf(request))
        /\ ~IsRaised(ParseReply(reply))
        /\ args' = request
        /\ ret' = ParseReply(reply)
        /\ cache' = Append(cache, [key |-> KeyOf(request), score |-> ParseReply(reply)])
        /\ calls' = Append(calls, KeyOf(request))
        /\ appended' = Append(appended, CallRecord(request, reply, ParseReply(reply)))
        /\ UNCHANGED <<pc, work>>

\* _call, lines 122-140: the client answers and the parse raises an
\* exception line 141 does not name; line 144 is not reached
ScoreParseRaises ==
    \E request \in ScoreRequests, reply \in JudgeReplies :
        /\ Len(appended) < MaxJudgeCalls
        /\ ~CacheHas(cache, KeyOf(request))
        /\ IsRaised(ParseReply(reply))
        /\ args' = request
        /\ ret' = ParseReply(reply)
        /\ calls' = Append(calls, KeyOf(request))
        /\ appended' = Append(appended, CallRecord(request, reply, ParseReply(reply)))
        /\ UNCHANGED <<pc, work, cache>>

\* _call, lines 122-126: the client raises
ScoreClientRaises ==
    \E request \in ScoreRequests :
        /\ Len(appended) < MaxJudgeCalls
        /\ ~CacheHas(cache, KeyOf(request))
        /\ args' = request
        /\ ret' = Raised("client")
        /\ calls' = Append(calls, KeyOf(request))
        /\ appended' = Append(appended, CallRecord(request, ClientRaised, Raised("client")))
        /\ UNCHANGED <<pc, work, cache>>

JudgeNext ==
    \/ ScoreFromCache
    \/ ScoreFromClient
    \/ ScoreParseRaises
    \/ ScoreClientRaises

SpecJudge == JudgeInit /\ [][JudgeNext]_vars

\* ===================================================== SpecScalar
\* token_overlap_similarity and ordinal_agreement applied to every input
\* within the bounds
MaxChars == 3
MaxScale == 3

\* the characters of a str: two letters, one of them in both cases, and
\* the blank
Chars == {"a", "A", "b", " "}

Strings == SeqsUpTo(Chars, MaxChars)

\* the values of a scale, lowest first
Levels == <<"low", "medium", "high", "very_high">>

ScaleValues == {Levels[k] : k \in 1..MaxScale}

\* the scales: lists of distinct values, the empty one included
Scales ==
    {scale \in SeqsUpTo(ScaleValues, MaxScale) :
        \A k, l \in 1..Len(scale) : scale[k] = scale[l] => k = l}

ScalarInit ==
    /\ pc = "call"
    /\ \/ args \in [fn : {"token_overlap_similarity"}, a : Strings, b : Strings]
       \/ args \in [fn : {"ordinal_agreement"},
                     predicted : ScaleValues,
                     actual : ScaleValues,
                     scale : Scales]
    /\ ret = None
    /\ RunnerIdle

CallTokenOverlapSimilarity ==
    /\ pc = "call"
    /\ args.fn = "token_overlap_similarity"
    /\ ret' = token_overlap_similarity(args.a, args.b)
    /\ pc' = "done"
    /\ UNCHANGED <<args, appended, work, cache, calls>>

CallOrdinalAgreement ==
    /\ pc = "call"
    /\ args.fn = "ordinal_agreement"
    /\ ret' = ordinal_agreement(args.predicted, args.actual, args.scale)
    /\ pc' = "done"
    /\ UNCHANGED <<args, appended, work, cache, calls>>

ScalarNext == CallTokenOverlapSimilarity \/ CallOrdinalAgreement

SpecScalar == ScalarInit /\ [][ScalarNext]_vars

\* ===================================================== SpecStructural
\* validate_utterance_indices and check_score_distribution applied to every
\* input within the bounds
MaxIndices == 3
MaxScores == 5
MaxTopics == 2
MaxTurns == 3

\* indices below 0, inside and beyond every max_index tried
IndexValues == -2..3
MaxIndexValues == -1..2

\* scores in [0, 1] with two decimals: one low, one just under 0.8, 0.8
\* itself, and two more of the top bucket, near and far from 0.8; 0.68 and
\* 0.82 make, with 0.79, 0.80, 0.80, a list whose standard deviation is
\* 0.04996
ScoreValues ==
    {Frac(10, 100), Frac(68, 100), Frac(79, 100), Frac(80, 100), Frac(82, 100),
     Frac(84, 100), Frac(99, 100)}

\* topics named after a word of the transcripts in either case, or after none
TimelineTopics ==
    [name : {<<"a">>, <<"B">>, <<"c">>}, timeline_position : {"early", "mid", "late"}]

\* utterances mentioning a, both a and b, and b
TimelineUtterances ==
    {Utterance(0, <<"a">>), Utterance(1, <<"A", " ", "b">>), Utterance(2, <<"b">>)}

StructuralInit ==
    /\ pc = "call"
    /\ \/ args \in [fn : {"validate_utterance_indices"},
                     indices : SeqsUpTo(IndexValues, MaxIndices),
                     max_index : MaxIndexValues,
                     label : {"test"}]
       \/ args \in [fn : {"check_score_distribution"},
                     scores : SeqsUpTo(ScoreValues, MaxScores),
                     label : {"test"}]
       \/ args \in [fn : {"check_timeline_consistency"},
                     topics : SeqsUpTo(TimelineTopics, MaxTopics),
                     utterances : SeqsUpTo(TimelineUtterances, MaxTurns)]
    /\ ret = None
    /\ RunnerIdle

CallValidateUtteranceIndices ==
    /\ pc = "call"
    /\ args.fn = "validate_utterance_indices"
    /\ ret' = validate_utterance_indices(args.indices, args.max_index, args.label)
    /\ pc' = "done"
    /\ UNCHANGED <<args, appended, work, cache, calls>>

CallCheckScoreDistribution ==
    /\ pc = "call"
    /\ args.fn = "check_score_distribution"
    /\ ret' = check_score_distribution(args.scores, args.label)
    /\ pc' = "done"
    /\ UNCHANGED <<args, appended, work, cache, calls>>

CallCheckTimelineConsistency ==
    /\ pc = "call"
    /\ args.fn = "check_timeline_consistency"
    /\ ret' = check_timeline_consistency(args.topics, args.utterances)
    /\ pc' = "done"
    /\ UNCHANGED <<args, appended, work, cache, calls>>

StructuralNext ==
    \/ CallValidateUtteranceIndices
    \/ CallCheckScoreDistribution
    \/ CallCheckTimelineConsistency

SpecStructural == StructuralInit /\ [][StructuralNext]_vars

\* ================================================================ claims

Min(a, b) == IF a <= b THEN a ELSE b

\* the harmonic mean of p and r, 0 when both are 0, stated without division
IsHarmonicMean(f, p, r) ==
    IF p = Zero /\ r = Zero
    THEN f = Zero
    ELSE FMul(f, FAdd(p, r)) = FMul(FInt(2), FMul(p, r))

\* C1: the matching built by compute_fuzzy_precision_recall is one-to-one by
\* position: no extracted index and no ground-truth index is in two matched
\* pairs, so there are at most min(|extracted|, |ground_truth|) pairs.
C1_OneToOne ==
    pc = "done" =>
        /\ \A k, l \in 1..Len(ret.accepted) :
              k # l => /\ ret.accepted[k][1] # ret.accepted[l][1]
                       /\ ret.accepted[k][2] # ret.accepted[l][2]
        /\ Len(ret.matched) = Len(ret.accepted)
        /\ Len(ret.matched) <= Min(Len(args.extracted), Len(args.ground_truth))

\* C1 witness: a call in which more pairs reached the threshold than could be
\* matched, and two pairs were matched
C1_Witness ==
    /\ pc = "done"
    /\ Len(ret.matched) = 2
    /\ Len(BuildPairs(args.extracted, args.ground_truth, args.similarity_fn,
                      args.threshold, 1, 1)) > 2

\* C2: precision = matched/|extracted|, recall = matched/|ground_truth| and
\* f1 their harmonic mean when both lists are non-empty; (1,1,1,[]) when both
\* are empty, (0,0,0,[]) when only extracted is, (0,1,0,[]) when only the
\* ground truth is.
C2_Scores ==
    pc = "done" =>
        LET e == Len(args.extracted)
            g == Len(args.ground_truth)
            m == Len(ret.matched)
        IN  /\ (e > 0 /\ g > 0) =>
                  /\ ret.p = Frac(m, e)
                  /\ ret.r = Frac(m, g)
                  /\ IsHarmonicMean(ret.f, ret.p, ret.r)
            /\ (e = 0 /\ g = 0) => <<ret.p, ret.r, ret.f, ret.matched>> = <<One, One, One, <<>>>>
            /\ (e = 0 /\ g > 0) => <<ret.p, ret.r, ret.f, ret.matched>> = <<Zero, Zero, Zero, <<>>>>
            /\ (e > 0 /\ g = 0) => <<ret.p, ret.r, ret.f, ret.matched>> = <<Zero, One, Zero, <<>>>>

\* C2 witness: both lists non-empty, something matched, precision and recall
\* differ
C2_Witness ==
    /\ pc = "done"
    /\ Len(args.extracted) = 2
    /\ Len(args.ground_truth) = 1
    /\ Len(ret.matched) = 1
    /\ ret.p = Half
    /\ ret.r = One

\* C3: precision(A,B) = |A n B|/|A| for non-empty A, 1 when both are empty,
\* 0 when only A is; recall(A,B) = |A n B|/|B| for non-empty B, 1 when B is
\* empty; both lie in [0,1]; precision_recall_f1 returns them with
\* f1(precision, recall).
C3_PrecisionRecall ==
    pc = "done" =>
        LET A == args.predicted
            B == args.actual
            n == Cardinality(A \cap B)
            pExpected == IF A # {} THEN Frac(n, Cardinality(A))
                         ELSE IF B = {} THEN One ELSE Zero
            rExpected == IF B # {} THEN Frac(n, Cardinality(B)) ELSE One
        IN  /\ ret.fn = "precision" => ret.value = pExpected /\ InUnit(ret.value)
            /\ ret.fn = "recall" => ret.value = rExpected /\ InUnit(ret.value)
            /\ ret.fn = "precision_recall_f1" =>
                  /\ ret.value[1] = pExpected
                  /\ ret.value[2] = rExpected
                  /\ ret.value[3] = f1(ret.value[1], ret.value[2])
                  /\ IsHarmonicMean(ret.value[3], pExpected, rExpected)

\* C3 witness: precision_recall_f1 on two overlapping, different sets
C3_Witness ==
    /\ pc = "done"
    /\ ret.fn = "precision_recall_f1"
    /\ args.predicted \cap args.actual # {}
    /\ args.predicted \ args.actual # {}
    /\ ret.value[1] # ret.value[2]

\* The metrics a report holds, layer by layer, stated from the report's
\* fields alone
MetricsHeld(report) ==
    report.surface.signal_metrics
    \o report.behavioral.signal_metrics
    \o report.psychographic.signal_metrics
    \o (IF report.multimodal = None THEN <<>> ELSE report.multimodal.signal_metrics)

RECURSIVE MetricsHeldByAll(_)
MetricsHeldByAll(reports) ==
    IF reports = <<>> THEN <<>>
    ELSE MetricsHeld(Head(reports)) \o MetricsHeldByAll(Tail(reports))

\* the positions of ms that carry a value of the field
PresentAt(ms, field) == {k \in 1..Len(ms) : ms[k][field] # None}

\* the sum of the field over the positions S of ms
RECURSIVE SumAt(_, _, _)
SumAt(ms, field, S) ==
    IF S = {} THEN Zero
    ELSE LET k == CHOOSE x \in S : TRUE
         IN  FAdd(ms[k][field], SumAt(ms, field, S \ {k}))

\* v is the arithmetic mean of the field over the positions S # {} of ms
IsMeanAt(v, ms, field, S) ==
    /\ IsFrac(v)
    /\ FMul(v, FInt(Cardinality(S))) = SumAt(ms, field, S)

\* C4: overall_f1 is the arithmetic mean of exactly the F1 values that are
\* present over the metrics of the surface, behavioral, psychographic and
\* (when present) multimodal layers; a signal without F1 is in neither the
\* sum nor the count.
C4_OverallF1 ==
    pc = "done" =>
        LET ms == MetricsHeld(args)
            S == PresentAt(ms, "f1")
        IN  S # {} => IsMeanAt(ret, ms, "f1", S)

\* C4 witness: a report with a multimodal layer in which some metrics have an
\* F1 and some have none, and whose overall_f1 is not the zero-filled mean
C4_Witness ==
    /\ pc = "done"
    /\ args.multimodal # None
    /\ LET ms == MetricsHeld(args)
           S == PresentAt(ms, "f1")
       IN  /\ S # {}
           /\ S # 1..Len(ms)
           /\ args.multimodal.signal_metrics # <<>>
           /\ FMul(ret, FInt(Len(ms))) # SumAt(ms, "f1", S)

\* the names of the metrics of a list, and those with a value to average
NamesIn(ms) == {ms[k].signal_name : k \in 1..Len(ms)}
NamesWithValue(ms) ==
    {ms[k].signal_name : k \in PresentAt(ms, "precision")
                                \cup PresentAt(ms, "recall")
                                \cup PresentAt(ms, "f1")}

\* entry is the three means of the metrics called name: each the mean of the
\* values present, NaN when none is
IsMeansOf(entry, ms, name) ==
    \A field \in {"precision", "recall", "f1"} :
        LET S == {k \in PresentAt(ms, field) : ms[k].signal_name = name}
        IN  IF S = {} THEN entry[field] = NaN
            ELSE IsMeanAt(entry[field], ms, field, S)

\* C9 as stated: mean_metrics_by_signal has, for each signal name occurring in
\* any report, the mean of precision, of recall and of f1 over the metrics of
\* that name where the value is present (NaN only when none is).
C9_EveryName ==
    pc = "done" =>
        LET ms == MetricsHeldByAll(args)
        IN  \A name \in NamesIn(ms) :
                /\ name \in DOMAIN ret
                /\ IsMeansOf(ret[name], ms, name)

\* C9 amended: the result has an entry exactly for the signal names that have
\* at least one of precision, recall, f1 present in some report; the entry
\* holds the mean of each over the values present (NaN when none is), so two
\* reports with topics f1 = v give mean f1 = v.
C9_NamesWithValue ==
    pc = "done" =>
        LET ms == MetricsHeldByAll(args)
        IN  /\ DOMAIN ret = NamesWithValue(ms)
            /\ \A name \in NamesWithValue(ms) :
                  /\ IsMeansOf(ret[name], ms, name)
                  /\ \A k \in PresentAt(ms, "f1") :
                        (/\ ms[k].signal_name = name
                         /\ \A l \in PresentAt(ms, "f1") :
                               ms[l].signal_name = name => ms[l].f1 = ms[k].f1)
                        => ret[name]["f1"] = ms[k].f1

\* C9 witness: a corpus of three reports where topics has F1 24/35 twice and
\* no F1 once, and a name with no value at all has no entry
C9_Witness ==
    /\ pc = "done"
    /\ Len(args) = 3
    /\ LET ms == MetricsHeldByAll(args)
       IN  /\ Cardinality({k \in PresentAt(ms, "f1") : ms[k].signal_name = "topics"}) = 2
           /\ \E k \in 1..Len(ms) : ms[k].signal_name = "topics" /\ ms[k].f1 = None
           /\ NamesIn(ms) # NamesWithValue(ms)
    /\ "topics" \in DOMAIN ret
    /\ ret["topics"]["f1"] = Frac(24, 35)
    /\ ret["topics"]["precision"] = Frac(7, 10)


\* the SignalMetrics an evaluator call has produced
Produced == IF pc = "done" /\ ret # None THEN ret.signal_metrics ELSE <<>>

\* the signal types a layer defines
LayerSignalTypes(layer_name) ==
    CASE layer_name = "Surface" ->
             {"aspects", "topics", "entities", "key_phrases"}
      [] layer_name = "Behavioral" ->
             {"objection_triples", "buying_intent", "competitive_mentions",
              "engagement_trajectory"}
      [] layer_name = "Psychographic" ->
             {"mental_model", "persona_indicators", "language_fingerprint"}
      [] layer_name = "Multimodal" -> {"divergences", "composite_sentiments"}

\* C6: every LayerReport an evaluator returns holds exactly one SignalMetrics
\* for each signal type of its layer and none for anything else (Multimodal,
\* whenever a report is produced, both divergences and composite_sentiments),
\* each with a precision and a recall that are not None.
C6_OnePerSignalType ==
    (pc = "done" /\ ret # None) =>
        /\ ret.layer_name = args.layer
        /\ \A name \in LayerSignalTypes(ret.layer_name) :
              Cardinality({k \in 1..Len(Produced) :
                              Produced[k].signal_name = name}) = 1
        /\ \A k \in 1..Len(Produced) :
              /\ Produced[k].signal_name \in LayerSignalTypes(ret.layer_name)
              /\ Produced[k].precision # None
              /\ Produced[k].recall # None

PRF == {"precision", "recall", "f1"}

ValuesInUnit(m) == \A f \in PRF : m[f] = None \/ InUnit(m[f])

\* C8 as stated: for every SignalMetrics the evaluators produce, precision,
\* recall and f1 are each absent or in [0,1], and the stored f1 is the
\* harmonic mean of precision and recall whenever both are present,
\* language_fingerprint included.
C8_F1Derivable ==
    \A k \in 1..Len(Produced) :
        /\ ValuesInUnit(Produced[k])
        /\ (Produced[k].precision # None /\ Produced[k].recall # None) =>
               /\ Produced[k].f1 # None
               /\ IsHarmonicMean(Produced[k].f1, Produced[k].precision,
                                 Produced[k].recall)

\* the (precision, recall, f1) of the vocabulary, metaphor and framing
\* sub-signals of a language_fingerprint evaluation
FingerprintSubSignals(extracted, ground_truth) ==
    LET e == extracted.language_fingerprint
        g == ground_truth.language_fingerprint
        meta == compute_fuzzy_precision_recall(e.metaphors, g.metaphors,
                    "token_overlap_similarity", Half)
        frame == compute_fuzzy_precision_recall(e.framing_patterns, g.framing_patterns,
                     "token_overlap_similarity", Half)
    IN  <<precision_recall_f1(LowerSet(e.distinctive_vocabulary),
                              LowerSet(g.distinctive_vocabulary)),
          <<meta.p, meta.r, meta.f>>,
          <<frame.p, frame.r, frame.f>>>>

\* C8, amended: precision, recall and f1 are each absent or in [0,1]; for
\* every signal type but language_fingerprint the stored f1 is the harmonic
\* mean of precision and recall; for language_fingerprint each of the three
\* is the unweighted mean of that value over the three sub-signals.
C8_F1DerivableButFingerprint ==
    \A k \in 1..Len(Produced) :
        LET m == Produced[k]
        IN  /\ ValuesInUnit(m)
            /\ (m.signal_name # "language_fingerprint"
                    /\ m.precision # None /\ m.recall # None) =>
                   /\ m.f1 # None
                   /\ IsHarmonicMean(m.f1, m.precision, m.recall)
            /\ m.signal_name = "language_fingerprint" =>
                   LET sub == FingerprintSubSignals(args.extracted, args.ground_truth)
                       MeanOf3(i) == FMul(Frac(1, 3),
                                          FAdd(sub[1][i], FAdd(sub[2][i], sub[3][i])))
                   IN  /\ m.precision = MeanOf3(1)
                       /\ m.recall = MeanOf3(2)
                       /\ m.f1 = MeanOf3(3)

\* C8 witness: a language_fingerprint whose extraction has a metaphor the
\* ground truth lacks: precision 2/3, recall 1, and f1 2/3 where the harmonic
\* mean is 4/5
C8_Witness ==
    /\ pc = "done"
    /\ ret # None
    /\ ret.layer_name = "Psychographic"
    /\ ret.signal_metrics[3].signal_name = "language_fingerprint"
    /\ ret.signal_metrics[3].precision = Frac(2, 3)
    /\ ret.signal_metrics[3].recall = One
    /\ ret.signal_metrics[3].f1 = Frac(2, 3)
    /\ ~IsHarmonicMean(ret.signal_metrics[3].f1, ret.signal_metrics[3].precision,
                       ret.signal_metrics[3].recall)


\* what the four evaluators alone make of a case: for every metric its name,
\* precision, recall, f1 and the two counts
CoreValues(report) ==
    [k \in 1..Len(all_signal_metrics(report)) |->
        LET m == all_signal_metrics(report)[k]
        IN  <<m.signal_name, m.precision, m.recall, m.f1,
              m.count_extracted, m.count_ground_truth>>]

IsEvaluationOf(report, case) ==
    /\ report.transcript_id = case.extracted.transcript_id
    /\ CoreValues(report)
           = CoreValues(EvaluateResult(case, CoreReports(case, TRUE, NothingInstalled)))

\* C5: the list evaluate_corpus builds follows the input order: its i-th
\* report is the evaluation of the i-th case, with the transcript_id of the
\* i-th extracted result, and the CorpusReport it returns holds one report
\* per case.
C5_ReportsInInputOrder ==
    /\ Len(appended) <= Len(args.cases)
    /\ \A i \in 1..Len(appended) : IsEvaluationOf(appended[i], args.cases[i])
    /\ pc = "returned" =>
           /\ Len(ret.reports) = Len(args.cases)
           /\ \A i \in 1..Len(ret.reports) :
                  IsEvaluationOf(ret.reports[i], args.cases[i])

\* C5 witness: evaluate_corpus returned the reports of two cases with
\* different transcript ids, judged and with the baselines run
C5_Witness ==
    /\ pc = "returned"
    /\ ~args.skip_llm_judge
    /\ ~args.skip_baselines
    /\ Len(ret.reports) = 2
    /\ ret.reports[1].transcript_id = "t2"
    /\ ret.reports[2].transcript_id = "t1"

\* the metric named divergences of a multimodal report has these values and
\* at least one structural issue
DivergencesAre(layer_report, p, r, f) ==
    \E k \in 1..Len(layer_report.signal_metrics) :
        LET m == layer_report.signal_metrics[k]
        IN  /\ m.signal_name = "divergences"
            /\ m.precision = p
            /\ m.recall = r
            /\ m.f1 = f
            /\ m.structural_issues # <<>>

MultimodalAsSpecified(report, case) ==
    LET e == case.extracted.multimodal
        g == case.ground_truth.multimodal
    IN  /\ (report.multimodal = None) <=> (e = None /\ g = None)
        /\ (e # None /\ g = None) => DivergencesAre(report.multimodal, Zero, One, Zero)
        /\ (e = None /\ g # None) => DivergencesAre(report.multimodal, Zero, Zero, Zero)

\* C7: the multimodal report of evaluate() is absent exactly when neither
\* side has multimodal data; when only the extraction has it, it holds
\* divergences with precision 0, recall 1, f1 0 and a structural issue; when
\* only the ground truth has it, divergences with 0, 0, 0 and a structural
\* issue.
C7_MultimodalSpecialCases ==
    \A i \in 1..Len(appended) : MultimodalAsSpecified(appended[i], args.cases[i])

\* C7 witness: a corpus was evaluated, with the judge, whose first case has
\* multimodal data only in the extraction and whose second has it only in
\* the ground truth
C7_Witness ==
    /\ pc = "returned"
    /\ ~args.skip_llm_judge
    /\ Len(args.cases) = 2
    /\ args.cases[1].extracted.multimodal # None
    /\ args.cases[1].ground_truth.multimodal = None
    /\ args.cases[2].extracted.multimodal = None
    /\ args.cases[2].ground_truth.multimodal # None
    /\ DivergencesAre(ret.reports[1].multimodal, Zero, One, Zero)
    /\ DivergencesAre(ret.reports[2].multimodal, Zero, Zero, Zero)

\* C10: a judge call that fails is caught at the oracle boundary, so every
\* run of evaluate_corpus that ends, ends by returning a CorpusReport with
\* one report for every case: the client's exception never leaves it.
C10_JudgeFailureCaught ==
    pc \notin {"loop", "judge"} =>
        /\ pc = "returned"
        /\ Len(ret.reports) = Len(args.cases)


\* the last call on the LLMJudge asked the client and got a reply of one of
\* these kinds
LastReplyOfKind(kinds) ==
    /\ appended # <<>>
    /\ appended[Len(appended)].reply.kind \in kinds

Unparseable == {"not_json", "no_score", "not_object", "null_score", "bad_score"}

\* C11: when the judge's output cannot be parsed into a score (not JSON, no
\* "score" key, not a JSON object, a null or non-numeric score), _call does
\* not raise and returns a JudgeScore with score 3 and a justification that
\* notes the parse failure; a numeric score that is parsed is clamped into
\* 1..5.
C11_ParseFailureGivesMidpoint ==
    /\ LastReplyOfKind(Unparseable) =>
           /\ ~IsRaised(ret)
           /\ ret = JudgeScore(3, "Parse error")
    /\ LastReplyOfKind({"object", "fenced"}) =>
           /\ ~IsRaised(ret)
           /\ ret.score \in 1..5
           /\ ret.score = Min(5, IF appended[Len(appended)].reply.score < 1 THEN 1
                                 ELSE appended[Len(appended)].reply.score)

\* the calls of the history, by position, that asked the client for this key
AskedFor(key) ==
    {i \in 1..Len(appended) :
        KeyOf(appended[i].request) = key /\ appended[i].reply # NotAsked}

\* those of them that came back with a score, which line 144 stored
StoredFor(key) == {i \in AskedFor(key) : ~IsRaised(appended[i].outcome)}

Keys == {KeyOf(request) : request \in ScoreRequests}

\* a call whose key an earlier call has scored returns that score and does
\* not ask the client, whatever its excerpt and ground truth
HitsReturnStored ==
    \A i \in 1..Len(appended) :
        \A j \in StoredFor(KeyOf(appended[i].request)) :
            j < i => /\ appended[i].reply = NotAsked
                     /\ appended[i].outcome = appended[j].outcome

\* what a call stored is in the cache ever after, unchanged
StoredStays ==
    \A key \in Keys :
        \A j \in StoredFor(key) :
            /\ CacheHas(cache, key)
            /\ CacheGet(cache, key) = appended[j].outcome

CallsOfType(signal_type) == {i \in 1..Len(calls) : calls[i][2] = signal_type}

\* C13: repeated evaluation of unchanged data makes no duplicate external
\* judge call: when every case of the corpus is the same extraction, ground
\* truth and transcript, no (transcript id, signal type, signal content) is
\* sent to the client twice.
C13_NoRepeatedExternalCalls ==
    (\A i, j \in 1..Len(args.cases) : args.cases[i] = args.cases[j]) =>
        \A i, j \in 1..Len(calls) : calls[i] = calls[j] => i = j

JudgeSignalTypes ==
    {"aspect", "objection_triple", "competitive", "persona", "framing", "divergence"}

\* C14: one evaluate() call with the judge enabled makes at most 5 judge
\* calls for each signal type, however many signals of the type were
\* extracted.
C14_AtMostFiveCallsPerType ==
    Len(args.cases) = 1 =>
        \A signal_type \in JudgeSignalTypes :
            Cardinality(CallsOfType(signal_type)) <= 5

\* the secondary metrics of a signal type that are computed over matched
\* items
SecondaryFields(signal_name) ==
    CASE signal_name \in {"aspects", "topics"} -> {"accuracy", "mae"}
      [] signal_name \in {"entities", "objection_triples", "competitive_mentions",
                          "divergences", "composite_sentiments"} -> {"accuracy"}
      [] signal_name \in {"key_phrases", "persona_indicators"} -> {"mae"}
      [] signal_name = "engagement_trajectory" -> {"ordinal_agreement"}
      [] OTHER -> {}

\* the keys by which the items of a signal type are matched exactly
MatchKeys(signal_name, signals) ==
    IF signals = None THEN {}
    ELSE CASE signal_name = "objection_triples" ->
                  Range(ObjectionTypes(signals.objection_triples))
           [] signal_name = "competitive_mentions" ->
                  Range(LowerCompetitors(signals.competitive_mentions))
           [] signal_name = "persona_indicators" ->
                  Range(Column(signals.persona_indicators, "archetype"))
           [] signal_name = "engagement_trajectory" ->
                  Range(Column(signals.engagement_trajectory, "phase"))
           [] signal_name = "divergences" ->
                  Range(Column(signals.divergences, "utterance_index"))
           [] signal_name = "composite_sentiments" ->
                  Range(Column(signals.composite_sentiments, "utterance_index"))

\* some extracted item of the metric's signal type is matched with a ground
\* truth item: a fuzzy pair for the surface signals, a common key for the
\* others
AnyMatched(m) ==
    IF m.signal_name \in {"aspects", "topics", "entities", "key_phrases"}
    THEN m.matched_pairs # <<>>
    ELSE MatchKeys(m.signal_name, args.extracted)
             \cap MatchKeys(m.signal_name, args.ground_truth) # {}

\* C15: every secondary metric computed over matched items is None exactly
\* when no item is matched, and otherwise a value in [0,1] (never a 0 that
\* stands for "not applicable").
C15_NoneIffNothingMatched ==
    \A k \in 1..Len(Produced) :
        \A field \in SecondaryFields(Produced[k].signal_name) :
            /\ (Produced[k][field] = None) <=> ~AnyMatched(Produced[k])
            /\ Produced[k][field] # None => InUnit(Produced[k][field])

\* C15 witness: a surface evaluation whose one matched aspect pair disagrees
\* in polarity, so that accuracy is a scored 0, while no topic is matched and
\* the topics accuracy and mae are None
C15_Witness ==
    /\ pc = "done"
    /\ ret # None
    /\ ret.layer_name = "Surface"
    /\ \E k \in 1..Len(Produced) :
          /\ Produced[k].signal_name = "aspects"
          /\ Len(Produced[k].matched_pairs) = 1
          /\ Produced[k].accuracy = Zero
          /\ Produced[k].mae = Frac(40, 100)
    /\ \E k \in 1..Len(Produced) :
          /\ Produced[k].signal_name = "topics"
          /\ Produced[k].matched_pairs = <<>>
          /\ Produced[k].accuracy = None
          /\ Produced[k].mae = None

RECURSIVE Flatten(_)
Flatten(seqs) == IF seqs = <<>> THEN <<>> ELSE Head(seqs) \o Flatten(Tail(seqs))

\* the utterance indices the extracted items of a signal type refer to, in
\* the order of the items
ExtractedIndices(signal_name, extracted) ==
    CASE signal_name = "aspects" ->
             Flatten(Column(extracted.aspects, "source_utterance_indices"))
      [] signal_name = "objection_triples" ->
             Flatten([k \in 1..Len(extracted.objection_triples) |->
                 extracted.objection_triples[k].objection.source_utterance_indices
                 \o (IF extracted.objection_triples[k].resolution = None THEN <<>>
                     ELSE extracted.objection_triples[k].resolution
                              .source_utterance_indices)])
      [] signal_name = "competitive_mentions" ->
             Flatten(Column(extracted.competitive_mentions, "source_utterance_indices"))
      [] signal_name = "divergences" ->
             IF extracted = None THEN <<>>
             ELSE Column(extracted.divergences, "utterance_index")

\* those of them that are negative or beyond the largest turn index of the
\* transcript (0 for a transcript without utterances)
OutOfBounds(indices, utterances) ==
    SelectSeq(indices, LAMBDA idx : idx < 0 \/ idx > MaxTurnIndex(utterances))

\* the indices the index issues of a metric name
IndicesFlagged(m) ==
    Column(SelectSeq(m.structural_issues,
                     LAMBDA issue : issue.check \in {"negative index", "exceeds max"}),
           "idx")

\* C16: the evaluators complete for every schema-valid input, and every
\* out-of-bounds index of an extracted aspect, objection, resolution,
\* competitive mention or divergence is recorded as one structural issue on
\* the SignalMetrics of that signal type.
C16_EveryBadIndexRecorded ==
    \A k \in 1..Len(Produced) :
        Produced[k].signal_name \in {"aspects", "objection_triples",
                                     "competitive_mentions", "divergences"} =>
            IndicesFlagged(Produced[k])
                = OutOfBounds(ExtractedIndices(Produced[k].signal_name, args.extracted),
                              args.transcript.utterances)

\* the baseline_agreement of the surface metric of that name in a report
BaselineOf(report, signal_name) ==
    MetricNamed(report.surface, signal_name).baseline_agreement

\* a report of evaluate() with the baselines: a missing library leaves the
\* baseline_agreement of its signal None, and a library that is installed
\* and has something to compare gives its signal a fraction
BaselinesFailSoft(report, case, env) ==
    /\ "spacy" \notin env.installed => BaselineOf(report, "entities") = None
    /\ "yake" \notin env.installed => BaselineOf(report, "key_phrases") = None
    /\ "textblob" \notin env.installed => BaselineOf(report, "aspects") = None
    /\ ("spacy" \in env.installed /\ env.spacy_entities # {}) =>
           InUnit(BaselineOf(report, "entities"))
    /\ ("yake" \in env.installed /\ env.yake_phrases # {}) =>
           InUnit(BaselineOf(report, "key_phrases"))
    /\ ("textblob" \in env.installed
            /\ SentimentPairs(case.extracted.surface.aspects,
                              case.transcript.utterances) # <<>>) =>
           InUnit(BaselineOf(report, "aspects"))

\* C17: with skip_baselines=False and an optional baseline library missing,
\* evaluate() returns normally, the baseline_agreement of the signal that
\* needs the library is None, and the baseline agreements of the other
\* signals are still computed.
C17_MissingBaselineIsNone ==
    ~args.skip_baselines =>
        /\ \A i \in 1..Len(appended) :
               BaselinesFailSoft(appended[i], args.cases[i], args.env)
        /\ pc = "raised" => ~args.skip_llm_judge

\* C17 witness: spaCy is missing, YAKE and TextBlob are installed, and the
\* report returned has no entity baseline, a key phrase baseline and an
\* aspect sentiment baseline
C17_Witness ==
    /\ pc = "returned"
    /\ ~args.skip_baselines
    /\ args.env.installed = {"yake", "textblob"}
    /\ Len(ret.reports) >= 1
    /\ BaselineOf(ret.reports[1], "entities") = None
    /\ BaselineOf(ret.reports[1], "key_phrases") = One
    /\ BaselineOf(ret.reports[1], "aspects") = One

\* mean_judge_score is None exactly when judge_scores is empty, and is
\* otherwise the sum of the scores over their number, between 1 and 5
MeanIsOfScores(m) ==
    /\ (m.mean_judge_score = None) <=> (m.judge_scores = <<>>)
    /\ m.judge_scores # <<>> =>
           /\ m.mean_judge_score
                  = FDiv(FInt(SumInts([k \in 1..Len(m.judge_scores) |->
                                          m.judge_scores[k].score])),
                         FInt(Len(m.judge_scores)))
           /\ FLe(FInt(1), m.mean_judge_score)
           /\ FLe(m.mean_judge_score, FInt(5))

\* C18: after evaluate() with the judge enabled, for every SignalMetrics,
\* mean_judge_score is None exactly when judge_scores is empty and otherwise
\* the arithmetic mean of the scores in judge_scores, hence in [1,5].
C18_MeanJudgeScore ==
    ~args.skip_llm_judge =>
        \A i \in 1..Len(appended) :
            \A k \in 1..Len(all_signal_metrics(appended[i])) :
                MeanIsOfScores(all_signal_metrics(appended[i])[k])

\* C18 witness: the judge gave the six persona indicators of a case the
\* scores 2, 3, 4, 5, 5, 5, the mean stored is 4, and the buying_intent
\* metric of the report, which the judge is not asked about, has none
C18_Witness ==
    /\ ~args.skip_llm_judge
    /\ Len(appended) >= 1
    /\ LET m == MetricNamed(appended[1].psychographic, "persona_indicators")
       IN  /\ Column(m.judge_scores, "score") = <<2, 3, 4, 5, 5, 5>>
           /\ m.mean_judge_score = FInt(4)
    /\ LET m == MetricNamed(appended[1].behavioral, "buying_intent")
       IN  /\ m.judge_scores = <<>>
           /\ m.mean_judge_score = None

\* the indices of a list that lie outside 0..max_index, in list order
OutOfRange(indices, max_index) ==
    SelectSeq(indices, LAMBDA idx : idx < 0 \/ idx > max_index)

\* C19: validate_utterance_indices returns, in input order, exactly one
\* issue for each index below 0 or above max_index, naming that index and
\* carrying the label, and nothing for an index in 0..max_index; the result
\* is as long as the number of out-of-bounds indices.
C19_OneIssuePerBadIndex ==
    (pc = "done" /\ args.fn = "validate_utterance_indices") =>
        LET bad == OutOfRange(args.indices, args.max_index)
        IN  /\ Len(ret) = Len(bad)
            /\ \A k \in 1..Len(bad) :
                   /\ ret[k].idx = bad[k]
                   /\ ret[k].label = args.label
                   /\ ret[k].check = IF bad[k] < 0 THEN "negative index"
                                     ELSE "exceeds max"

\* C19 witness: of the indices -1, 2, 3 checked against max_index 2, the
\* first and the last are reported, in that order, and 2 is not
C19_Witness ==
    /\ pc = "done"
    /\ args.fn = "validate_utterance_indices"
    /\ args.indices = <<-1, 2, 3>>
    /\ args.max_index = 2
    /\ Column(ret, "idx") = <<-1, 3>>

IssueChecks(stats) == {stats.issues[k].check : k \in 1..Len(stats.issues)}

\* C20: check_score_distribution reports a low-variance issue for every
\* list of 3 or more identical scores, and a single-bucket issue for every
\* list of 5 or more scores that all lie in [0.8, 1.0).
C20_DegenerateListsFlagged ==
    (pc = "done" /\ args.fn = "check_score_distribution") =>
        LET n == Len(args.scores)
        IN  /\ (n >= 3 /\ \A k \in 1..n : args.scores[k] = args.scores[1])
                   => "low variance" \in IssueChecks(ret)
            /\ (n >= 5 /\ \A k \in 1..n : /\ FLe(Frac(8, 10), args.scores[k])
                                            /\ FLt(args.scores[k], One))
                   => "single bucket" \in IssueChecks(ret)

\* C20 witness: three scores of 0.1 give the low-variance issue alone, or
\* five scores between 0.8 and 0.99 that are not all alike give the
\* single-bucket issue alone
C20_Witness ==
    /\ pc = "done"
    /\ args.fn = "check_score_distribution"
    /\ \/ /\ args.scores = <<Frac(10, 100), Frac(10, 100), Frac(10, 100)>>
          /\ IssueChecks(ret) = {"low variance"}
       \/ /\ args.scores = <<Frac(80, 100), Frac(99, 100), Frac(80, 100),
                              Frac(99, 100), Frac(99, 100)>>
          /\ IssueChecks(ret) = {"single bucket"}

\* a str with the case of every letter changed
SwapCase(s) ==
    [k \in 1..Len(s) |-> IF s[k] = "a" THEN "A"
                         ELSE IF s[k] = "A" THEN "a"
                         ELSE IF s[k] = "b" THEN "B"
                         ELSE s[k]]

\* a str that split() finds no token in
NoTokens(s) == \A k \in 1..Len(s) : s[k] = " "

\* C21: token_overlap_similarity is symmetric, does not change when the case
\* of either argument changes, lies in [0,1], is 1 for a non-empty string
\* and itself and for two strings without tokens, and is 0 when exactly one
\* of the two strings has no tokens.
C21_SimilarityLaws ==
    (pc = "done" /\ args.fn = "token_overlap_similarity") =>
        /\ ret = token_overlap_similarity(args.b, args.a)
        /\ ret = token_overlap_similarity(SwapCase(args.a), args.b)
        /\ ret = token_overlap_similarity(args.a, SwapCase(args.b))
        /\ InUnit(ret)
        /\ (args.a = args.b /\ args.a # <<>>) => ret = One
        /\ (NoTokens(args.a) /\ NoTokens(args.b)) => ret = One
        /\ (NoTokens(args.a) # NoTokens(args.b)) => ret = Zero

\* C21 witness: "A b" and "a" share one of two tokens, whatever the case
C21_Witness ==
    /\ pc = "done"
    /\ args.fn = "token_overlap_similarity"
    /\ args.a = <<"A", " ", "b">>
    /\ args.b = <<"a">>
    /\ ret = Half

\* the position of a value in a scale of distinct values
PositionIn(scale, value) == CHOOSE k \in 1..Len(scale) : scale[k] = value

\* C22: ordinal_agreement is 1 for a value of the scale and itself; for two
\* values of a scale of two or more it is 1 - distance / (len(scale) - 1),
\* so it is lower for every pair further apart and 0 for the two ends; it
\* is 0 when either value is not in the scale, a one-element scale included.
C22_OrdinalAgreementLaws ==
    (pc = "done" /\ args.fn = "ordinal_agreement") =>
        LET scale == args.scale
            in_scale == Range(scale)
            dist(x, y) == Abs(PositionIn(scale, x) - PositionIn(scale, y))
        IN  IF args.predicted \in in_scale /\ args.actual \in in_scale
            THEN /\ args.predicted = args.actual => ret = One
                 /\ Len(scale) >= 2 =>
                        /\ FMul(FSub(One, ret), FInt(Len(scale) - 1))
                               = FInt(dist(args.predicted, args.actual))
                        /\ \A x, y \in in_scale :
                               dist(x, y) > dist(args.predicted, args.actual)
                                   => FLt(ordinal_agreement(x, y, scale), ret)
                        /\ {args.predicted, args.actual} = {scale[1], scale[Len(scale)]}
                               => ret = Zero
            ELSE ret = Zero

\* C22 witness: low against medium on a scale of three is 1/2, or a value
\* that is not on a one-element scale gives 0
C22_Witness ==
    /\ pc = "done"
    /\ args.fn = "ordinal_agreement"
    /\ \/ /\ args.scale = <<"low", "medium", "high">>
          /\ args.predicted = "low"
          /\ args.actual = "medium"
          /\ ret = Half
       \/ /\ args.scale = <<"low">>
          /\ args.predicted = "medium"
          /\ args.actual = "low"
          /\ ret = Zero

\* the list-valued signal types
ListSignalTypes ==
    {"aspects", "topics", "entities", "key_phrases", "objection_triples",
     "buying_intent", "competitive_mentions", "engagement_trajectory",
     "persona_indicators", "language_fingerprint", "divergences",
     "composite_sentiments"}

\* the items one side holds for a signal type; for language_fingerprint the
\* three sub-lists together
ItemsOf(signal_name, signals) ==
    CASE signal_name = "buying_intent" -> signals.buying_intent_markers
      [] signal_name = "language_fingerprint" ->
             signals.language_fingerprint.distinctive_vocabulary
             \o signals.language_fingerprint.metaphors
             \o signals.language_fingerprint.framing_patterns
      [] OTHER -> signals[signal_name]

EmptyOnBothSides(signal_name) ==
    /\ args.extracted # None
    /\ args.ground_truth # None
    /\ ItemsOf(signal_name, args.extracted) = <<>>
    /\ ItemsOf(signal_name, args.ground_truth) = <<>>

\* C23: the SignalMetrics of a list-valued signal type that is empty in the
\* extraction and in the ground truth (for language_fingerprint all three
\* sub-lists, for the multimodal types with both sides present) has
\* precision = recall = f1 = 1.
C23_EmptyBothIsPerfect ==
    \A k \in 1..Len(Produced) :
        (/\ Produced[k].signal_name \in ListSignalTypes
         /\ EmptyOnBothSides(Produced[k].signal_name)) =>
            /\ Produced[k].precision = One
            /\ Produced[k].recall = One
            /\ Produced[k].f1 = One

\* C23 witness: a surface evaluation with extracted aspects and none
\* expected, whose aspects metric is 0 / 1 / 0 while topics, entities and
\* key_phrases, empty on both sides, are 1 / 1 / 1
C23_Witness ==
    /\ pc = "done"
    /\ ret # None
    /\ ret.layer_name = "Surface"
    /\ args.extracted.aspects # <<>>
    /\ args.ground_truth.aspects = <<>>
    /\ MetricNamed(ret, "aspects").precision = Zero
    /\ \A name \in {"topics", "entities", "key_phrases"} :
          /\ EmptyOnBothSides(name)
          /\ MetricNamed(ret, name).precision = One
          /\ MetricNamed(ret, name).recall = One
          /\ MetricNamed(ret, name).f1 = One

\* the similarity of extracted item c[1] and ground-truth item c[2] of the
\* call in hand
SimOf(c) == ApplySimilarity(args.similarity_fn, args.extracted[c[1]],
                            args.ground_truth[c[2]])

\* the candidate pairs: those whose similarity reaches the threshold
Candidates ==
    {c \in (1..Len(args.extracted)) \X (1..Len(args.ground_truth)) :
        FLe(args.threshold, SimOf(c))}

\* c is processed before d: higher similarity first, equal similarities in
\* row-major order
Precedes(c, d) ==
    \/ FLt(SimOf(d), SimOf(c))
    \/ /\ SimOf(c) = SimOf(d)
       /\ (c[1] < d[1] \/ (c[1] = d[1] /\ c[2] < d[2]))

SharesEndpoint(c, d) == c[1] = d[1] \/ c[2] = d[2]

\* C24: the matched pairs are the greedy matching: only candidate pairs
\* (similarity >= threshold), listed in descending similarity with ties in
\* row-major order, a candidate being accepted exactly when no accepted pair
\* before it shares an endpoint with it; so every candidate left out shares
\* an endpoint with an accepted pair that precedes it.
C24_GreedyExactly ==
    pc = "done" =>
        LET accepted == Range(ret.accepted)
        IN  /\ accepted \subseteq Candidates
            /\ \A k, l \in 1..Len(ret.accepted) :
                   k < l => Precedes(ret.accepted[k], ret.accepted[l])
            /\ \A c \in Candidates :
                   c \in accepted <=>
                       \A a \in accepted : Precedes(a, c) => ~SharesEndpoint(a, c)
            /\ \A c \in Candidates \ accepted :
                   \E a \in accepted : Precedes(a, c) /\ SharesEndpoint(a, c)
            /\ \A k \in 1..Len(ret.accepted) :
                   ret.matched[k] = <<args.extracted[ret.accepted[k][1]],
                                      args.ground_truth[ret.accepted[k][2]],
                                      SimOf(ret.accepted[k])>>

\* C24 witness: ["a", "A"] against ["A", "a b"] at threshold 0.5: all four
\* pairs are candidates, (1,1) and (2,1) tie at 1 and (1,1) wins, (1,2) is
\* blocked by it, and (2,2) is accepted at 1/2
C24_Witness ==
    /\ pc = "done"
    /\ args.similarity_fn = "token_overlap_similarity"
    /\ args.extracted = << <<"a">>, <<"A">> >>
    /\ args.ground_truth = << <<"A">>, <<"a", " ", "b">> >>
    /\ args.threshold = Half
    /\ Cardinality(Candidates) = 4
    /\ ret.accepted = << <<1, 1>>, <<2, 2>> >>

\* a set of pairs no two of which share an endpoint
IsAssignment(pairs) == \A c, d \in pairs : c # d => ~SharesEndpoint(c, d)

\* the most pairs a one-to-one assignment over the candidate pairs can have
MaximumMatched ==
    LET sizes == {Cardinality(pairs) : pairs \in {q \in SUBSET Candidates : IsAssignment(q)}}
    IN  CHOOSE n \in sizes : \A o \in sizes : o <= n

\* the candidates are (1,1), (1,2) and (2,1), and (1,1) is processed first
GreedyTrap ==
    /\ Candidates = {<<1, 1>>, <<1, 2>>, <<2, 1>>}
    /\ Precedes(<<1, 1>>, <<1, 2>>)
    /\ Precedes(<<1, 1>>, <<2, 1>>)

\* C25: the greedy matching is not globally optimal: it never has more
\* pairs than the largest one-to-one assignment over the pairs that reach the
\* threshold, and where the best-scored candidate (1,1) blocks the two
\* compatible candidates (1,2) and (2,1) it has strictly fewer, with
\* precision and recall below those of the larger assignment.
C25_GreedyNotOptimal ==
    pc = "done" =>
        /\ Len(ret.matched) <= MaximumMatched
        /\ GreedyTrap =>
               /\ Len(ret.matched) = 1
               /\ MaximumMatched = 2
               /\ FLt(ret.p, Frac(MaximumMatched, Len(args.extracted)))
               /\ FLt(ret.r, Frac(MaximumMatched, Len(args.ground_truth)))

\* C25 witness: ["a b", "b"] against ["a b", "a"] with token overlap at
\* threshold 0.5: greedy matches "a b" with "a b" and nothing else, giving
\* precision and recall 1/2, while "a b" / "a" and "b" / "a b" both reach
\* the threshold and could be matched together
C25_Witness ==
    /\ pc = "done"
    /\ args.similarity_fn = "token_overlap_similarity"
    /\ args.extracted = << <<"a", " ", "b">>, <<"b">> >>
    /\ args.ground_truth = << <<"a", " ", "b">>, <<"a">> >>
    /\ args.threshold = Half
    /\ GreedyTrap
    /\ ret.accepted = << <<1, 1>> >>
    /\ ret.p = Half
    /\ ret.r = Half
    /\ IsAssignment({<<1, 2>>, <<2, 1>>})
    /\ {<<1, 2>>, <<2, 1>>} \subseteq Candidates

\* the turn indices of the utterances whose text holds the topic's name,
\* case aside, one entry per utterance
MentionsOf(topic, utterances) ==
    {k \in 1..Len(utterances) :
        \E from \in 1..(Len(utterances[k].text) + 1) :
            \E to \in (from - 1)..Len(utterances[k].text) :
                Lower(SubSeq(utterances[k].text, from, to)) = Lower(topic.name)}

\* the element at position floor(k / 2) of the sorted turn indices of the
\* k mentions: fewer than floor(k / 2) + 1 mentions lie below it, and at
\* least that many do not lie above it
MedianTurn(mentions, utterances) ==
    LET half == Cardinality(mentions) \div 2
    IN  CHOOSE m \in {utterances[k].turn_index : k \in mentions} :
            /\ Cardinality({k \in mentions : utterances[k].turn_index < m}) <= half
            /\ Cardinality({k \in mentions : utterances[k].turn_index <= m}) > half

\* the bucket the mentions of a topic concentrate in
ExpectedBucket(topic, utterances) ==
    LET m == MedianTurn(MentionsOf(topic, utterances), utterances)
        N == Len(utterances)
    IN  IF 3 * m < N THEN "early"
        ELSE IF N <= 3 * m /\ 3 * m < 2 * N THEN "mid"
        ELSE "late"

\* the topics an issue is due for, in topic order
Mislabeled(topics, utterances) ==
    SelectSeq(topics,
              LAMBDA t : /\ MentionsOf(t, utterances) # {}
                         /\ t.timeline_position # ExpectedBucket(t, utterances))

\* C26: check_timeline_consistency returns nothing for an empty utterance
\* list and nothing for a topic no utterance mentions; for a topic with
\* mentions it returns exactly one issue iff the labeled timeline_position
\* differs from the bucket of the median mention turn m among N utterances
\* (early if 3m < N, mid if N <= 3m < 2N, late otherwise).
C26_TimelineIssues ==
    (pc = "done" /\ args.fn = "check_timeline_consistency") =>
        LET due == Mislabeled(args.topics, args.utterances)
        IN  /\ args.utterances = <<>> => ret = <<>>
            /\ Len(ret) = Len(due)
            /\ \A k \in 1..Len(due) :
                   /\ ret[k].label = <<"topic", due[k].name>>
                   /\ ret[k].labeled = due[k].timeline_position
                   /\ ret[k].expected = ExpectedBucket(due[k], args.utterances)

\* C26 witness: over three utterances, topic a (mentioned in turns 0 and 1,
\* median 1) labeled early is reported as mid, topic c (never mentioned) is
\* not reported
C26_Witness ==
    /\ pc = "done"
    /\ args.fn = "check_timeline_consistency"
    /\ args.utterances = <<Utterance(0, <<"a">>), Utterance(1, <<"A", " ", "b">>),
                           Utterance(2, <<"b">>)>>
    /\ args.topics = <<[name |-> <<"c">>, timeline_position |-> "early"],
                       [name |-> <<"a">>, timeline_position |-> "early"]>>
    /\ Len(ret) = 1
    /\ ret[1].expected = "mid"
    /\ ret[1].idx = 1

\* the population standard deviation of scores of two decimals is below
\* 0.05: with h the scores in hundredths and S their sum, the variance is
\* sum((n * h - S)^2) / (n^3 * 10000), to be below 25 / 10000
StdBelow005(scores) ==
    LET n == Len(scores)
        h == [k \in 1..n |-> (scores[k][1] * 100) \div scores[k][2]]
        S == SumInts(h)
    IN  SumInts([k \in 1..n |-> (n * h[k] - S) * (n * h[k] - S)]) < 25 * n * n * n

\* which of the five equal-width bins of [0,1] a score lies in, 1.0 in the
\* last
BinOf(score) ==
    IF score = One THEN 4 ELSE (score[1] * 5) \div score[2]

\* C27: check_score_distribution reports the low-variance issue exactly when
\* n >= 3 and the population standard deviation of the scores is below 0.05
\* (variance below 0.0025), the single-bucket issue exactly when n >= 5 and
\* all scores lie in one of the five bins, and no issue when n < 3.
C27_IssuesExactlyWhen ==
    (pc = "done" /\ args.fn = "check_score_distribution") =>
        LET n == Len(args.scores)
        IN  /\ "low variance" \in IssueChecks(ret)
                   <=> (n >= 3 /\ StdBelow005(args.scores))
            /\ "single bucket" \in IssueChecks(ret)
                   <=> (n >= 5 /\ \A k \in 1..n : BinOf(args.scores[k])
                                                      = BinOf(args.scores[1]))
            /\ n < 3 => ret.issues = <<>>

\* the extracted triples of the objection type of a ground-truth triple
SameObjection(ext_triples, gt_triple) ==
    {i \in 1..Len(ext_triples) : ext_triples[i].objection.type = gt_triple.objection.type}

\* the extracted triple a ground-truth triple is paired with: the first in
\* list order of the same objection type
PairedWith(ext_triples, gt_triple) ==
    ext_triples[CHOOSE i \in SameObjection(ext_triples, gt_triple) :
                    \A l \in SameObjection(ext_triples, gt_triple) : i <= l]

\* C28: the accuracy of objection_triples is (resolution_matches +
\* outcome_matches) / (2 * matched) over the ground-truth triples that have
\* an extracted triple of the same objection type, each paired with the
\* first such extracted triple (which may serve several ground-truth
\* triples); a resolution matches only when both sides have one and the
\* types are equal, an outcome when the resolved flags are equal; the
\* accuracy is None when no ground-truth triple is paired.
C28_ObjectionAccuracy ==
    (pc = "done" /\ ret # None /\ ret.layer_name = "Behavioral") =>
        LET ext == args.extracted.objection_triples
            gt == args.ground_truth.objection_triples
            paired == {j \in 1..Len(gt) : SameObjection(ext, gt[j]) # {}}
            resolution_matches ==
                Cardinality({j \in paired :
                    /\ PairedWith(ext, gt[j]).resolution # None
                    /\ gt[j].resolution # None
                    /\ PairedWith(ext, gt[j]).resolution.type = gt[j].resolution.type})
            outcome_matches ==
                Cardinality({j \in paired :
                    PairedWith(ext, gt[j]).outcome.resolved = gt[j].outcome.resolved})
            accuracy == MetricNamed(ret, "objection_triples").accuracy
        IN  IF paired = {} THEN accuracy = None
            ELSE accuracy = Frac(resolution_matches + outcome_matches,
                                 2 * Cardinality(paired))

\* C28 witness: two extracted pricing triples, an unresolved one without
\* resolution first, against two ground-truth pricing triples resolved by
\* an ROI argument and by a discount: both are paired with the first
\* extracted triple, nothing matches, and the accuracy is 0, although the
\* second extracted triple equals the first ground-truth one
C28_Witness ==
    /\ pc = "done"
    /\ ret # None
    /\ ret.layer_name = "Behavioral"
    /\ Len(args.extracted.objection_triples) = 2
    /\ Len(args.ground_truth.objection_triples) = 2
    /\ args.extracted.objection_triples[1].resolution = None
    /\ args.extracted.objection_triples[2] = args.ground_truth.objection_triples[1]
    /\ \A j \in 1..2 :
          /\ args.ground_truth.objection_triples[j].objection.type = "pricing"
          /\ args.ground_truth.objection_triples[j].resolution # None
          /\ args.extracted.objection_triples[j].objection.type = "pricing"
    /\ MetricNamed(ret, "objection_triples").accuracy = Zero

\* the list, name field and threshold of a fuzzy-matched surface signal
SurfaceKey(signal_name) ==
    CASE signal_name = "aspects" -> [key |-> "aspect", threshold |-> ASPECT_THRESHOLD]
      [] signal_name = "topics" -> [key |-> "name", threshold |-> TOPIC_THRESHOLD]
      [] signal_name = "entities" -> [key |-> "name", threshold |-> ENTITY_THRESHOLD]
      [] signal_name = "key_phrases" ->
             [key |-> "phrase", threshold |-> KEYPHRASE_THRESHOLD]

\* the (i, j) of the pairs fuzzy matching produces for a surface signal
MatchedIndices(signal_name) ==
    compute_fuzzy_precision_recall(
        Column(args.extracted[signal_name], SurfaceKey(signal_name).key),
        Column(args.ground_truth[signal_name], SurfaceKey(signal_name).key),
        "token_overlap_similarity", SurfaceKey(signal_name).threshold).accepted

\* value is the fraction of the matched pairs (i, j) whose extracted item i
\* and ground-truth item j agree in the field
IsAgreementOfPairs(value, signal_name, field) ==
    LET pairs == MatchedIndices(signal_name)
    IN  pairs # <<>> =>
            value = Frac(Cardinality({k \in 1..Len(pairs) :
                            args.extracted[signal_name][pairs[k][1]][field]
                                = args.ground_truth[signal_name][pairs[k][2]][field]}),
                         Len(pairs))

\* value is the mean absolute difference of the field between extracted
\* item i and ground-truth item j over the matched pairs (i, j)
IsErrorOfPairs(value, signal_name, field) ==
    LET pairs == MatchedIndices(signal_name)
    IN  pairs # <<>> =>
            value = FMean([k \in 1..Len(pairs) |->
                        FAbs(FSub(args.extracted[signal_name][pairs[k][1]][field],
                                  args.ground_truth[signal_name][pairs[k][2]][field]))])

\* C30: for every pair (i, j) that fuzzy matching produces for aspects,
\* topics, entities or key_phrases, the secondary metrics are computed from
\* extracted item i and ground-truth item j, also when several items of a
\* list carry the same name.
C30_SecondaryFromMatchedItems ==
    (pc = "done" /\ ret # None /\ ret.layer_name = "Surface") =>
        /\ IsAgreementOfPairs(MetricNamed(ret, "aspects").accuracy, "aspects", "sentiment")
        /\ IsErrorOfPairs(MetricNamed(ret, "aspects").mae, "aspects", "intensity")
        /\ IsAgreementOfPairs(MetricNamed(ret, "topics").accuracy, "topics",
                              "timeline_position")
        /\ IsErrorOfPairs(MetricNamed(ret, "topics").mae, "topics", "relevance")
        /\ IsAgreementOfPairs(MetricNamed(ret, "entities").accuracy, "entities",
                              "entity_type")
        /\ IsErrorOfPairs(MetricNamed(ret, "key_phrases").mae, "key_phrases", "relevance")

\* a SignalMetrics without what the optional passes write
WithoutOptional(m) ==
    [m EXCEPT !.baseline_agreement = None,
              !.judge_scores = <<>>,
              !.mean_judge_score = None]

\* the metrics of a report, in order, without what the optional passes write
FrameOf(report) ==
    [k \in 1..Len(all_signal_metrics(report)) |->
        WithoutOptional(all_signal_metrics(report)[k])]

\* the report the four evaluators alone give for a case
CoreOnly(case) == EvaluateResult(case, CoreReports(case, TRUE, NothingInstalled))

\* C29: the baseline and judge passes of evaluate() write only
\* baseline_agreement (on aspects, entities and key_phrases) and
\* judge_scores / mean_judge_score: every other field of every
\* SignalMetrics, and the names and order of the metrics, are those of the
\* evaluation with both passes skipped; with skip_baselines no
\* baseline_agreement is set, and with skip_llm_judge the judge client
\* receives no request and every judge_scores is empty.  The finished
\* reports are looked at whenever the list of them can have changed, that
\* is, in every state but those within a judge pass.
C29_OptionalPassesFrame ==
    /\ pc # "judge" => \A i \in 1..Len(appended) :
           /\ FrameOf(appended[i]) = FrameOf(CoreOnly(args.cases[i]))
           /\ \A k \in 1..Len(all_signal_metrics(appended[i])) :
                  LET m == all_signal_metrics(appended[i])[k]
                  IN  /\ m.baseline_agreement # None =>
                             /\ ~args.skip_baselines
                             /\ m.signal_name \in {"aspects", "entities", "key_phrases"}
                      /\ args.skip_llm_judge =>
                             /\ m.judge_scores = <<>>
                             /\ m.mean_judge_score = None
    /\ args.skip_llm_judge => calls = <<>>

\* C29 witness: a report made with both passes on, in which the aspects
\* metric carries a baseline agreement and a judge score, so that it differs
\* from the report of the evaluators alone, and only in the three fields
C29_Witness ==
    /\ pc = "returned"
    /\ Len(ret.reports) >= 1
    /\ ~args.skip_llm_judge
    /\ ~args.skip_baselines
    /\ calls # <<>>
    /\ MetricNamed(ret.reports[1].surface, "aspects").baseline_agreement # None
    /\ MetricNamed(ret.reports[1].surface, "aspects").judge_scores # <<>>
    /\ ret.reports[1] # CoreOnly(args.cases[1])
    /\ FrameOf(ret.reports[1]) = FrameOf(CoreOnly(args.cases[1]))

=============================================================================
